---------------------------- MODULE Spec2Model ----------------------------
(***************************************************************************)
(* Model of the EVM plugin's wallet session (WalletProvider) and of the    *)
(* three transaction operations built on it: TransferAction.transfer,      *)
(* SwapAction.swap and BridgeAction.bridge.                                *)
(*                                                                         *)
(* An operation is an async function.  Every `await` of the source is a    *)
(* point where the JavaScript event loop may run the continuation of       *)
(* another operation, so one action of the model is the code that runs     *)
(* between two awaits.  The outcome of the awaited call (RPC answer,       *)
(* aggregator answer, error) is chosen by the environment in the action    *)
(* that resumes after it.                                                  *)
(*                                                                         *)
(* Strings that the code takes apart (the decimal amount) are sequences of *)
(* one-character strings; big integers are records of a sign and a         *)
(* canonical sequence of decimal digits, so 10^18 is represented exactly.  *)
(***************************************************************************)
EXTENDS Integers, Sequences, FiniteSets, TLC

VARIABLES
    currentChain,   \* WalletProvider.currentChain
    chainConfigs,   \* WalletProvider.chainConfigs: chain -> clients
    address,        \* WalletProvider.address
    settings,       \* runtime.character.settings.chains.evm, None when absent
    sessions,       \* the WalletProvider objects the action handlers constructed
    cycle,          \* the trading cycle of AutoClientInterface
    ops             \* the invocations in progress or just ended, by slot

vars == <<currentChain, chainConfigs, address, settings, sessions, cycle, ops>>

(***************************************************************************)
(* Bounds of the model.                                                    *)
(***************************************************************************)
\* number of invocation slots (operations that can be in flight together)
MaxOps == 2
\* longest route list the aggregator returns
MaxRoutes == 2
\* most callbacks the aggregator invokes during one route execution
MaxCallbacks == 1
\* most token analyses in one trading cycle
MaxAnalyses == 2
\* longest amount string built from the amount alphabet
MaxAmountLen == 4

\* the absent value (null / undefined) of a record-valued field
None == [t |-> "none"]

(***************************************************************************)
(* Generic helpers.                                                        *)
(***************************************************************************)
RECURSIVE Repeat(_, _)
Repeat(x, n) == IF n <= 0 THEN <<>> ELSE <<x>> \o Repeat(x, n - 1)

Range(s) == {s[k] : k \in 1..Len(s)}

IndexOf(s, x) == IF x \in Range(s)
                 THEN CHOOSE k \in 1..Len(s) : s[k] = x /\ \A j \in 1..(k-1) : s[j] # x
                 ELSE 0

DigitChars == <<"0", "1", "2", "3", "4", "5", "6", "7", "8", "9">>

IsDigit(c) == c \in Range(DigitChars)

DigitVal(c) == IndexOf(DigitChars, c) - 1

AllDigits(s) == \A k \in 1..Len(s) : IsDigit(s[k])

RECURSIVE StripLeadingZeros(_)
StripLeadingZeros(s) ==
    IF s # <<>> /\ Head(s) = "0" THEN StripLeadingZeros(Tail(s)) ELSE s

RECURSIVE StripTrailingZeros(_)
StripTrailingZeros(s) ==
    IF s # <<>> /\ s[Len(s)] = "0"
    THEN StripTrailingZeros(SubSeq(s, 1, Len(s) - 1))
    ELSE s


(***************************************************************************)
(* JavaScript Number(s) on the amount string, as far as the code uses it:  *)
(* isNaN(Number(s)) and Number(s) <= 0.  The literal forms recognised are  *)
(* the empty string (0), decimal literals with an optional leading minus   *)
(* and an optional exponent.                                               *)
(***************************************************************************)
CountOf(s, c) == Cardinality({k \in 1..Len(s) : s[k] = c})

Before(s, c) == IF IndexOf(s, c) = 0 THEN s ELSE SubSeq(s, 1, IndexOf(s, c) - 1)

After(s, c) == IF IndexOf(s, c) = 0 THEN <<>> ELSE SubSeq(s, IndexOf(s, c) + 1, Len(s))

Unsigned(s) == IF s # <<>> /\ Head(s) = "-" THEN Tail(s) ELSE s

IsDecimalLiteral(s) ==
    /\ CountOf(s, ".") <= 1
    /\ AllDigits(Before(s, ".")) /\ AllDigits(After(s, "."))
    /\ Len(Before(s, ".")) + Len(After(s, ".")) >= 1

IsNumericLiteral(s) ==
    IF "e" \in Range(s)
    THEN /\ IsDecimalLiteral(Before(s, "e"))
         /\ After(s, "e") # <<>> /\ AllDigits(After(s, "e"))
    ELSE IsDecimalLiteral(s)

Mantissa(s) == Before(Unsigned(s), "e")

JsNumber(s) ==
    IF s = <<>> THEN "zero"
    ELSE IF ~IsNumericLiteral(Unsigned(s)) THEN "NaN"
    ELSE IF \A k \in 1..Len(Mantissa(s)) : Mantissa(s)[k] \in {"0", "."} THEN "zero"
    ELSE IF Head(s) = "-" THEN "negative"
    ELSE "positive"

\* isNaN(Number(s)) || Number(s) <= 0
NotPositiveNumber(s) == JsNumber(s) # "positive"

(***************************************************************************)
(* Big integers: [neg, digits], digits canonical (no leading zero, zero is *)
(* the empty sequence and never negative).                                 *)
(***************************************************************************)
BigInt(neg, str) ==
    [neg |-> neg /\ StripLeadingZeros(str) # <<>>, digits |-> StripLeadingZeros(str)]

BigIntToString(b) ==
    IF b.digits = <<>> THEN <<"0">>
    ELSE (IF b.neg THEN <<"-">> ELSE <<>>) \o b.digits

RECURSIVE DigitsLess(_, _)
DigitsLess(a, b) ==
    IF Len(a) # Len(b) THEN Len(a) < Len(b)
    ELSE IF a = <<>> THEN FALSE
    ELSE IF Head(a) # Head(b) THEN DigitVal(Head(a)) < DigitVal(Head(b))
    ELSE DigitsLess(Tail(a), Tail(b))

\* a < b on big integers
BigLess(a, b) ==
    IF a.neg /\ ~b.neg THEN TRUE
    ELSE IF ~a.neg /\ b.neg THEN FALSE
    ELSE IF a.neg THEN DigitsLess(b.digits, a.digits)
    ELSE DigitsLess(a.digits, b.digits)

(***************************************************************************)
(* viem's parseEther(value) = parseUnits(value, 18): pure string work, no  *)
(* floating point.  Returns a big integer, or ParseError when the value is *)
(* not of the form -?digits*.?digits*.                                     *)
(***************************************************************************)
Decimals == 18

ParseError == [kind |-> "InvalidDecimalNumber", cause |-> "Number is not a valid decimal number"]

MatchesDecimalForm(s) ==
    /\ CountOf(Unsigned(s), ".") <= 1
    /\ AllDigits(Before(Unsigned(s), "."))
    /\ AllDigits(After(Unsigned(s), "."))

\* value.split('.') with the default fraction = '0' when there is no dot
FractionOf(s) == IF "." \in Range(s) THEN After(s, ".") ELSE <<"0">>

\* a faulty variant: the fraction is not padded to the number of decimals
PadEndOmitted(s, n) == s

PadEnd(s, n) == s \o Repeat("0", n - Len(s))

PadStart(s, n) == Repeat("0", n - Len(s)) \o s

\* the decimal string of BigInt(s) + 1n
RECURSIVE IncDigits(_)
IncDigits(s) ==
    IF s = <<>> THEN <<"1">>
    ELSE IF s[Len(s)] = "9" THEN IncDigits(SubSeq(s, 1, Len(s) - 1)) \o <<"0">>
    ELSE SubSeq(s, 1, Len(s) - 1) \o <<DigitChars[DigitVal(s[Len(s)]) + 2]>>

PlusOne(s) == StripLeadingZeros(IncDigits(s))

\* a fraction longer than `decimals` digits, rounded half up at the last
\* digit kept; the result is one digit longer when the carry runs through
RoundedFraction(fraction, decimals) ==
    LET left  == SubSeq(fraction, 1, decimals - 1)
        unit  == DigitVal(fraction[decimals])
        up    == DigitVal(fraction[decimals + 1]) >= 5
    IN  IF up /\ unit = 9
        THEN PadStart(PlusOne(left) \o <<"0">>, Len(left) + 1)
        ELSE left \o <<DigitChars[unit + (IF up THEN 1 ELSE 0) + 1]>>

parseUnits(value, decimals) ==
    IF ~MatchesDecimalForm(value) THEN ParseError
    ELSE LET negative == value # <<>> /\ Head(value) = "-"
             integer  == Before(Unsigned(value), ".")
             fraction == StripTrailingZeros(FractionOf(value))
             rounded  == IF Len(fraction) > decimals
                         THEN RoundedFraction(fraction, decimals)
                         ELSE PadEnd(fraction, decimals)
         IN  IF Len(rounded) > decimals
             THEN BigInt(negative, PlusOne(integer) \o SubSeq(rounded, 2, decimals + 1))
             ELSE BigInt(negative, integer \o rounded)

parseEther(value) == parseUnits(value, Decimals)

\* viem's formatUnits(value, decimals): the decimal string of value / 10^decimals
formatUnits(value, decimals) ==
    LET display  == PadStart(value.digits, decimals)
        integer  == SubSeq(display, 1, Len(display) - decimals)
        fraction == StripTrailingZeros(SubSeq(display, Len(display) - decimals + 1,
                                              Len(display)))
    IN  (IF value.neg THEN <<"-">> ELSE <<>>)
            \o (IF integer = <<>> THEN <<"0">> ELSE integer)
            \o (IF fraction = <<>> THEN <<>> ELSE <<".">> \o fraction)

formatEther(wei) == formatUnits(wei, Decimals)

(***************************************************************************)
(* The chain registry and the session's clients.                           *)
(***************************************************************************)
SupportedChain == {"ethereum", "base", "sepolia"}

\* a chain identifier that is not registered
UnknownChainName == "polygon"

DEFAULT_CHAIN_CONFIGS ==
    [c \in SupportedChain |->
        [chainId |-> CASE c = "ethereum" -> 1
                       [] c = "base"     -> 8453
                       [] c = "sepolia"  -> 11155111,
         name    |-> c]]

\* a faulty variant: the agent's mapping is ignored
getChainConfigsDefaultOnly == DEFAULT_CHAIN_CONFIGS

\* settings.chains?.evm || DEFAULT_CHAIN_CONFIGS
getChainConfigs == IF settings = None THEN DEFAULT_CHAIN_CONFIGS ELSE settings

\* getChainConfigs(runtime)[chain]: undefined (None) for an unregistered chain
getChainConfig(chain) ==
    IF chain \in DOMAIN getChainConfigs THEN getChainConfigs[chain] ELSE None

\* the secret runtime.getSetting("EVM_PRIVATE_KEY")
PrivateKey == [secret |-> "EVM_PRIVATE_KEY"]

\* WalletProvider.connect: the value the call resolves to
connect == PrivateKey

\* the address of the account derived from EVM_PRIVATE_KEY
Account == [text |-> "0xAccount", starts0x |-> TRUE, length |-> 42, hex |-> TRUE]

\* a faulty variant: the signing client of each chain has an account of its own
createClientsOwnAccount(chain) ==
    [publicClient |-> [role |-> "public", chain |-> chain],
     walletClient |-> [role |-> "wallet", chain |-> chain,
                       account |-> [Account EXCEPT !.text = chain]]]

\* createClients(chain)
createClients(chain) ==
    [publicClient |-> [role |-> "public", chain |-> chain],
     walletClient |-> [role |-> "wallet", chain |-> chain, account |-> Account]]

Err(kind, cause) == [kind |-> kind, cause |-> cause]

IsErr(x) == "kind" \in DOMAIN x

\* reading a property of undefined
TypeError == Err("TypeError", "Cannot read properties of undefined")

\* a faulty variant: switching to the current chain resets to the default
switchChainToDefault(cur, chain) == IF cur = chain THEN "ethereum" ELSE chain

\* WalletProvider.switchChain: the new value of currentChain
switchChain(cur, chain) == chain

\* WalletProvider.getWalletClient
getWalletClient(cfgs, cur) ==
    IF cur \notin DOMAIN cfgs THEN TypeError
    ELSE IF cfgs[cur].walletClient = None THEN Err("NotConnected", "Wallet not connected")
    ELSE cfgs[cur].walletClient

\* WalletProvider.getPublicClient
getPublicClient(cfgs, chain) ==
    IF chain \notin DOMAIN cfgs THEN TypeError ELSE cfgs[chain].publicClient

(***************************************************************************)
(* Inputs of the operations.                                               *)
(***************************************************************************)
AmountOne      == <<"1", ".", "0">>
AmountHalf     == <<"0", ".", "5">>
AmountZero     == <<"0">>
AmountNegative == <<"-", "1">>
AmountNaN      == <<"a", "b", "c">>
AmountExp      == <<"1", "e", "1">>
AmountEmpty    == <<>>

AmountInputs ==
    {AmountOne, AmountHalf, AmountZero, AmountNegative, AmountNaN, AmountExp, AmountEmpty}

\* An address string, by what the code inspects of it: its text (identity),
\* whether it starts with "0x", its length, and whether the rest is hex.
GoodAddr     == [text |-> "0x742d..f44e", starts0x |-> TRUE,  length |-> 42, hex |-> TRUE]
NonHexAddr   == [text |-> "0xZZZZ..ZZZZ", starts0x |-> TRUE,  length |-> 42, hex |-> FALSE]
ShortAddr    == [text |-> "0x1234",       starts0x |-> TRUE,  length |-> 6,  hex |-> TRUE]
NoPrefixAddr == [text |-> "742d..f44e00", starts0x |-> FALSE, length |-> 42, hex |-> TRUE]

\* a missing address (null or the empty string): falsy
NoAddr       == [text |-> "",             starts0x |-> FALSE, length |-> 0,  hex |-> FALSE]

AddrInputs == {GoodAddr, NonHexAddr, ShortAddr, NoPrefixAddr, NoAddr}

\* "" is a missing chain (falsy)
ChainInputs == SupportedChain \cup {UnknownChainName, ""}

\* the null that getWalletBalance returns for "no data"
Null == [t |-> "null"]

Undefined == [t |-> "undefined"]

\* balances the chain node may report, in wei
BalanceZero == BigInt(FALSE, <<"0">>)
BalanceHalf == BigInt(FALSE, <<"5">> \o Repeat("0", 17))
BalanceTwo  == BigInt(FALSE, <<"2">> \o Repeat("0", 18))

BalanceValues == {BalanceZero, BalanceHalf, BalanceTwo}

\* texts of the errors a network call may raise
RpcErrors == {"execution reverted", "request timed out"}

\* hashes the broadcast backend may return
Hashes == {"0xabc", "0xdef"}

Fail(text) == [ok |-> FALSE, text |-> text]
Ok(value)  == [ok |-> TRUE, value |-> value]

\* the answers to a network call whose value the code does not inspect
PlainAnswers == {Ok("value")} \cup {Fail(e) : e \in RpcErrors}

(***************************************************************************)
(* An invocation of transfer, swap or bridge, or a direct call of a method *)
(* of the wallet session.                                                  *)
(***************************************************************************)
Slots == 1..MaxOps

\* identities of the WalletProvider objects the handlers construct: one per
\* handler invocation that can be in flight
SessionIds == 1..MaxOps

\* slippage: absent (null), or a number of basis points
NoSlippage == [present |-> FALSE, bp |-> 0]
Slippage(n) == [present |-> TRUE, bp |-> n]

NoParams ==
    [chain |-> "", toChain |-> "", toAddress |-> NoAddr, amount |-> <<>>,
     slippage |-> NoSlippage, fromToken |-> "", toToken |-> "", data |-> "null"]

IdleOp ==
    [kind                |-> "idle",
     pc                  |-> "idle",
     params              |-> NoParams,
     walletClient        |-> None,    \* the client read before the switch
     fromAddress         |-> NoAddr,
     updatedWalletClient |-> None,    \* the client read after the switch
     amountInWei         |-> None,
     balance             |-> None,
     routes              |-> None,    \* the response of getRoutes
     hash                |-> "",      \* the hash sendRawTransaction resolved to
     answer              |-> None,    \* what the last awaited request settled to (for
                                      \* the route request: a failure only)
     request             |-> None,    \* the getRoutes request
     calls               |-> <<>>,    \* the external calls issued, in order
     executed            |-> None,    \* the route handed to executeRoute
     transaction         |-> None,    \* the transaction handed to signTransaction
     options             |-> None,    \* the options handed to executeRoute
     cbLog               |-> <<>>,    \* the callbacks the aggregator invoked
     pre                 |-> "",      \* currentChain when the invocation began
     sid                 |-> 0,       \* the handler's own WalletProvider, 0 when the
                                      \* invocation runs on the session of the caller
     callback            |-> [supplied |-> FALSE, calls |-> <<>>],
                                      \* the handler's callback: whether one was
                                      \* supplied, and the texts it was invoked with
     result              |-> None,
     error               |-> None]

\* makeTrades has not been called
IdleCycle ==
    [pc       |-> "idle",
     analyses |-> <<>>,     \* the analyses handed to executeTrades
     next     |-> 0,        \* the index of the analysis whose swap is awaited
     swaps    |-> <<>>,     \* the swaps that settled: token address and outcome
     caught   |-> None,     \* the error the catch of makeTrades logged
     error    |-> None]     \* the error makeTrades threw to its caller

NewOp(kind, p) == [IdleOp EXCEPT !.kind = kind, !.params = p, !.pre = currentChain]

\* a faulty variant: the error is recorded and the operation goes on
ThrownAndContinues(op, e) == [op EXCEPT !.error = e]

\* the operation ends by throwing e
Thrown(op, e) == [op EXCEPT !.pc = "done", !.error = e]

\* the operation ends by returning r
Returned(op, r) == [op EXCEPT !.pc = "done", !.result = r]

\* an external call: its name and the chain of the client it goes to ("" for
\* the aggregator)
Call(name, on) == [name |-> name, on |-> on]

\* a faulty variant: every request is sent a second time
IssuedTwice(op, name, on) == [op EXCEPT !.calls = @ \o <<Call(name, on), Call(name, on)>>]

Issued(op, name, on) == [op EXCEPT !.calls = Append(@, Call(name, on))]

CallNames(op) == {op.calls[k].name : k \in 1..Len(op.calls)}

(***************************************************************************)
(* TransferAction.transfer                                                 *)
(***************************************************************************)
TransferParamsOf(chain, to, amount, data) ==
    [NoParams EXCEPT !.chain = chain, !.toAddress = to, !.amount = amount, !.data = data]

\* lines 48-74: the three validations, None when they pass
TransferValidationError(p) ==
    IF p.chain = "" \/ p.toAddress = NoAddr \/ p.amount = <<>>
    THEN Err("InvalidParameter", "Missing required parameters")
    ELSE IF NotPositiveNumber(p.amount)
    THEN Err("InvalidParameter", "Invalid amount")
    ELSE IF ~p.toAddress.starts0x \/ p.toAddress.length # 42
    THEN Err("InvalidParameter", "Invalid to address")
    ELSE None

\* a faulty variant: the cause is dropped from the message
TransferFailedOpaque(cause) == Err("TransferFailed", "Transfer failed")

\* line 184: `Transfer failed: ${error.message}`
TransferFailed(cause) == Err("TransferFailed", cause)

\* a faulty variant: signing with the client read before the switch
StaleSigningClient(op) == op.walletClient

\* line 151: the client that signs
TransferSigningClient(op) == op.updatedWalletClient

\* a faulty variant: the amount as given, not converted to wei
TransferResultWrongValue(op) ==
    [hash  |-> op.hash,
     from  |-> op.fromAddress,
     to    |-> op.params.toAddress,
     value |-> op.params.amount,
     data  |-> IF op.params.data = "null" THEN "0x" ELSE op.params.data]

\* lines 168-174
TransferResult(op) ==
    [hash  |-> op.hash,
     from  |-> op.fromAddress,
     to    |-> op.params.toAddress,
     value |-> BigIntToString(op.amountInWei),
     data  |-> IF op.params.data = "null" THEN "0x" ELSE op.params.data]

\* a faulty variant: the chain id is that of the session's current chain
TransferTransactionOnCurrentChain(op) ==
    [to      |-> op.params.toAddress,
     value   |-> op.amountInWei,
     data    |-> IF op.params.data = "null" THEN "0x" ELSE op.params.data,
     chainId |-> getChainConfigs[currentChain].chainId]

\* lines 133-143: the transaction to sign; chainConfig is the descriptor
\* getChainConfig(params.fromChain) returned at line 83
TransferTransaction(op) ==
    [to      |-> op.params.toAddress,
     value   |-> op.amountInWei,
     data    |-> IF op.params.data = "null" THEN "0x" ELSE op.params.data,
     chainId |-> getChainConfig(op.params.chain).chainId]

\* lines 37-79: the call, up to `await walletClient.getAddresses()`
StartTransfer(i, p) ==
    /\ ops[i].pc = "idle"
    /\ LET op == NewOp("transfer", p)
           e  == TransferValidationError(p)
           wc == getWalletClient(chainConfigs, currentChain)
       IN  ops' = [ops EXCEPT ![i] =
                IF e # None THEN Thrown(op, e)
                ELSE IF IsErr(wc) THEN Thrown(op, wc)
                ELSE [op EXCEPT !.pc = "t_getAddresses", !.walletClient = wc]]
    /\ UNCHANGED <<currentChain, chainConfigs, address, settings, sessions, cycle>>

\* lines 79-91: fromAddress, the chain configuration, switchChain
TransferSwitchChain(i) ==
    /\ ops[i].pc = "t_getAddresses"
    /\ LET op == [ops[i] EXCEPT !.fromAddress = ops[i].walletClient.account]
       IN  IF getChainConfig(op.params.chain) = None
           THEN /\ ops' = [ops EXCEPT ![i] = Thrown(op, TypeError)]
                /\ UNCHANGED currentChain
           ELSE /\ currentChain' = switchChain(currentChain, op.params.chain)
                /\ ops' = [ops EXCEPT ![i] = [op EXCEPT !.pc = "t_switchChain"]]
    /\ UNCHANGED <<chainConfigs, address, settings, sessions, cycle>>

\* lines 92-100: the updated client, parseEther, the balance query
TransferQueryBalance(i) ==
    /\ ops[i].pc = "t_switchChain"
    /\ LET op  == ops[i]
           uwc == getWalletClient(chainConfigs, currentChain)
           wei == parseEther(op.params.amount)
       IN  ops' = [ops EXCEPT ![i] =
                IF IsErr(uwc) THEN Thrown(op, uwc)
                ELSE IF IsErr(wei)
                THEN Thrown([op EXCEPT !.updatedWalletClient = uwc],
                            TransferFailed(wei.cause))
                ELSE Issued([op EXCEPT !.updatedWalletClient = uwc,
                                       !.amountInWei = wei,
                                       !.pc = "t_getWalletBalance"],
                            "getBalance", currentChain)]
    /\ UNCHANGED <<currentChain, chainConfigs, address, settings, sessions, cycle>>

\* a faulty variant: a balance that is null or below the amount is rejected
TransferRejectsLowBalance(i, b) ==
    /\ ops[i].pc = "t_getWalletBalance"
    /\ ops' = [ops EXCEPT ![i] =
            IF b = Null \/ BigLess(b, ops[i].amountInWei)
            THEN Thrown([ops[i] EXCEPT !.balance = b],
                        Err("InsufficientBalance", "Insufficient balance"))
            ELSE Issued([ops[i] EXCEPT !.balance = b, !.pc = "t_estimateGas"],
                        "estimateGas", ops[i].params.chain)]
    /\ UNCHANGED <<currentChain, chainConfigs, address, settings, sessions, cycle>>

\* lines 100-116: the balance (informational), then estimateGas
TransferEstimateGas(i, b) ==
    /\ ops[i].pc = "t_getWalletBalance"
    /\ ops' = [ops EXCEPT ![i] =
            Issued([ops[i] EXCEPT !.balance = b, !.pc = "t_estimateGas"],
                   "estimateGas", ops[i].params.chain)]
    /\ UNCHANGED <<currentChain, chainConfigs, address, settings, sessions, cycle>>

\* a faulty variant: the next request is issued whether or not the awaited
\* call failed
TransferTryStepUnchecked(i, a, at, next, on) ==
    /\ ops[i].pc = at
    /\ ops' = [ops EXCEPT ![i] =
            Issued([ops[i] EXCEPT !.pc = "t_" \o next, !.answer = a], next, on)]
    /\ UNCHANGED <<currentChain, chainConfigs, address, settings, sessions, cycle>>

\* a step of the try block (lines 95-185): the answer a of the awaited call
\* either fails (catch: Transfer failed) or lets the next call be issued
TransferTryStep(i, a, at, next, on) ==
    /\ ops[i].pc = at
    /\ ops' = [ops EXCEPT ![i] =
            IF ~a.ok THEN Thrown([ops[i] EXCEPT !.answer = a], TransferFailed(a.text))
            ELSE Issued([ops[i] EXCEPT !.pc = "t_" \o next, !.answer = a,
                                       !.transaction = IF next = "signTransaction"
                                                       THEN TransferTransaction(ops[i])
                                                       ELSE @],
                        next, on)]
    /\ UNCHANGED <<currentChain, chainConfigs, address, settings, sessions, cycle>>

\* lines 113-121
TransferGetGasPrice(i, a) ==
    TransferTryStep(i, a, "t_estimateGas", "getGasPrice", ops[i].params.chain)

\* lines 121-127
TransferGetNonce(i, a) ==
    TransferTryStep(i, a, "t_getGasPrice", "getTransactionCount", ops[i].params.chain)

\* lines 125-151
TransferSign(i, a) ==
    TransferTryStep(i, a, "t_getTransactionCount", "signTransaction",
                    TransferSigningClient(ops[i]).chain)

\* lines 151-157
TransferBroadcast(i, a) ==
    TransferTryStep(i, a, "t_signTransaction", "sendRawTransaction", ops[i].params.chain)

\* lines 155-185: the hash, the result
TransferReturn(i, a) ==
    /\ ops[i].pc = "t_sendRawTransaction"
    /\ ops' = [ops EXCEPT ![i] =
            IF ~a.ok THEN Thrown([ops[i] EXCEPT !.answer = a], TransferFailed(a.text))
            ELSE Returned([ops[i] EXCEPT !.hash = a.value, !.answer = a],
                          TransferResult([ops[i] EXCEPT !.hash = a.value]))]
    /\ UNCHANGED <<currentChain, chainConfigs, address, settings, sessions, cycle>>

(***************************************************************************)
(* The aggregator (LI.FI SDK): getRoutes and executeRoute.                 *)
(***************************************************************************)
RouteIds == 1..MaxRoutes

Route(id) == [id |-> id, approvalAddress |-> [text |-> "0xApproval", route |-> id]]

\* the route lists the aggregator may return: no route twice, at most MaxRoutes
RouteLists ==
    UNION {{s \in [1..n -> {Route(id) : id \in RouteIds}] :
                \A j, k \in 1..n : j # k => s[j] # s[k]} : n \in 0..MaxRoutes}

RouteAnswers == {Ok(s) : s \in RouteLists} \cup {Fail(e) : e \in RpcErrors}

\* execution.steps[0]?.execution?.process[0]; status "" is a missing process
ProcessStatuses == {"DONE", "PENDING", "FAILED", ""}

Processes ==
    {[status |-> s, txHash |-> h, data |-> "0xcalldata", error |-> "reverted"] :
        s \in ProcessStatuses, h \in Hashes}

ExecAnswers == {Ok(x) : x \in Processes} \cup {Fail(e) : e \in RpcErrors}

\* a faulty variant: an empty route list goes unnoticed
NoRoutesIgnored(routes) == FALSE

\* !routes.routes.length
NoRoutes(routes) == Len(routes) = 0

\* a faulty variant: the last route of the list is taken
LastRoute(routes) == IF routes = <<>> THEN None ELSE routes[Len(routes)]

\* routes.routes[0]: undefined (None) for an empty list
FirstRoute(routes) == IF routes = <<>> THEN None ELSE routes[1]

ZeroAddress == "0x0000000000000000000000000000000000000000"

\* chain ids the aggregator may pass to the switchChain callback
UnknownChainId == 137

CallbackChainIds ==
    {DEFAULT_CHAIN_CONFIGS[c].chainId : c \in SupportedChain} \cup {UnknownChainId}

\* Object.entries(getChainConfigs(runtime)).find(config.chainId === chainId)?.[0]
ChainNameOf(chainId) ==
    IF \E c \in DOMAIN getChainConfigs : getChainConfigs[c].chainId = chainId
    THEN CHOOSE c \in DOMAIN getChainConfigs : getChainConfigs[c].chainId = chainId
    ELSE ""

(***************************************************************************)
(* WalletProvider.getWalletBalance, up to its await: the chain whose node  *)
(* is asked, or "" when the client lookup throws (the catch returns null   *)
(* and no query is sent).                                                  *)
(***************************************************************************)
BalanceQueryChain(cfgs, cur) ==
    IF IsErr(getPublicClient(cfgs, cur)) \/ IsErr(getWalletClient(cfgs, cur))
    THEN ""
    ELSE getPublicClient(cfgs, cur).chain

\* the op after getWalletBalance() was called
BalanceQueried(op, cfgs, cur) ==
    IF BalanceQueryChain(cfgs, cur) = "" THEN op
    ELSE Issued(op, "getBalance", BalanceQueryChain(cfgs, cur))

\* the values getWalletBalance may resolve to after the call recorded in op
BalanceAnswers(op) ==
    IF op.calls # <<>> /\ op.calls[Len(op.calls)].name = "getBalance"
    THEN BalanceValues \cup {Null}
    ELSE {Null}

\* a WalletProvider has been constructed
Constructed == address # NoAddr

\* a faulty variant: a failed query is reported as a balance of zero
BalanceOrZero(a) == IF a.ok THEN a.value ELSE BalanceZero

\* lines 112-119: the awaited balance, or null from the catch
BalanceOrNull(a) == IF a.ok THEN a.value ELSE Null

\* a direct call of WalletProvider.getWalletBalance, up to its await
CallGetWalletBalance(i) ==
    /\ Constructed
    /\ ops[i].pc = "idle"
    /\ LET op == NewOp("getWalletBalance", NoParams)
       IN  ops' = [ops EXCEPT ![i] =
                IF BalanceQueryChain(chainConfigs, currentChain) = ""
                THEN Returned(op, Null)
                ELSE BalanceQueried([op EXCEPT !.pc = "w_getBalance"],
                                    chainConfigs, currentChain)]
    /\ UNCHANGED <<currentChain, chainConfigs, address, settings, sessions, cycle>>

\* the query settles with the answer a
GetWalletBalanceReturn(i, a) ==
    /\ ops[i].pc = "w_getBalance"
    /\ ops' = [ops EXCEPT ![i] = Returned([@ EXCEPT !.answer = a], BalanceOrNull(a))]
    /\ UNCHANGED <<currentChain, chainConfigs, address, settings, sessions, cycle>>

(***************************************************************************)
(* BridgeAction.bridge                                                     *)
(***************************************************************************)
BridgeParamsOf(chain, toChain, amount, to) ==
    [NoParams EXCEPT !.chain = chain, !.toChain = toChain, !.amount = amount,
                     !.toAddress = to]

\* lines 109-112
BridgeValidationError(p) ==
    IF p.amount = <<>> \/ NotPositiveNumber(p.amount)
    THEN Err("InvalidParameter", "Invalid amount")
    ELSE None

\* a faulty variant: no balance check
BridgeSkipsBalanceCheck(balance, amountInWei) == FALSE

\* line 126: !balance || balance < amountInWei
BridgeInsufficient(balance, amountInWei) ==
    \/ balance = Null
    \/ balance.digits = <<>>
    \/ BigLess(balance, amountInWei)

\* a faulty variant: the destination is the sender whatever the caller supplied
BridgeRequestToSender(op) ==
    [fromChainId      |-> getChainConfigs[op.params.chain].chainId,
     toChainId        |-> getChainConfigs[op.params.toChain].chainId,
     fromTokenAddress |-> ZeroAddress,
     toTokenAddress   |-> ZeroAddress,
     fromAmount       |-> BigIntToString(op.amountInWei),
     fromAddress      |-> op.fromAddress,
     toAddress        |-> op.fromAddress]

\* lines 138-146
BridgeRequest(op) ==
    [fromChainId      |-> getChainConfigs[op.params.chain].chainId,
     toChainId        |-> getChainConfigs[op.params.toChain].chainId,
     fromTokenAddress |-> ZeroAddress,
     toTokenAddress   |-> ZeroAddress,
     fromAmount       |-> BigIntToString(op.amountInWei),
     fromAddress      |-> op.fromAddress,
     toAddress        |-> IF op.params.toAddress = NoAddr THEN op.fromAddress
                          ELSE op.params.toAddress]

\* line 161: the second argument of executeRoute is the SDK configuration
BridgeExecutionOptions == [kind |-> "SDKConfig", integrator |-> "eliza"]

\* lines 176-182
BridgeResult(op, process) ==
    [hash    |-> process.txHash,
     from    |-> op.fromAddress,
     to      |-> op.executed.approvalAddress,
     value   |-> BigIntToString(op.amountInWei),
     chainId |-> getChainConfigs[op.params.chain].chainId]

\* lines 103-116: the call, up to `await walletClient.getAddresses()`
StartBridge(i, p) ==
    /\ ops[i].pc = "idle"
    /\ LET op == NewOp("bridge", p)
           e  == BridgeValidationError(p)
           wc == getWalletClient(chainConfigs, currentChain)
       IN  ops' = [ops EXCEPT ![i] =
                IF e # None THEN Thrown(op, e)
                ELSE IF IsErr(wc) THEN Thrown(op, wc)
                ELSE [op EXCEPT !.pc = "b_getAddresses", !.walletClient = wc]]
    /\ UNCHANGED <<currentChain, chainConfigs, address, settings, sessions, cycle>>

\* lines 116-120
BridgeSwitchChain(i) ==
    /\ ops[i].pc = "b_getAddresses"
    /\ currentChain' = switchChain(currentChain, ops[i].params.chain)
    /\ ops' = [ops EXCEPT ![i] = [@ EXCEPT !.fromAddress = ops[i].walletClient.account,
                                           !.pc = "b_switchChain"]]
    /\ UNCHANGED <<chainConfigs, address, settings, sessions, cycle>>

\* line 121
BridgeQueryBalance(i) ==
    /\ ops[i].pc = "b_switchChain"
    /\ ops' = [ops EXCEPT ![i] =
            BalanceQueried([@ EXCEPT !.pc = "b_getWalletBalance"],
                           chainConfigs, currentChain)]
    /\ UNCHANGED <<currentChain, chainConfigs, address, settings, sessions, cycle>>

\* lines 121-146: the balance check, then the route request
BridgeGetRoutes(i, b) ==
    /\ ops[i].pc = "b_getWalletBalance"
    /\ b \in BalanceAnswers(ops[i])
    /\ LET wei == parseEther(ops[i].params.amount)
           op  == [ops[i] EXCEPT !.balance = b, !.amountInWei = wei]
       IN  ops' = [ops EXCEPT ![i] =
                IF IsErr(wei) THEN Thrown([op EXCEPT !.amountInWei = None], wei)
                ELSE IF BridgeInsufficient(b, wei)
                THEN Thrown(op, Err("InsufficientBalance", "Insufficient balance"))
                ELSE IF getChainConfig(op.params.chain) = None
                        \/ getChainConfig(op.params.toChain) = None
                THEN Thrown(op, Err("BridgeFailed", TypeError.cause))
                ELSE Issued([op EXCEPT !.pc = "b_getRoutes", !.request = BridgeRequest(op)],
                            "getRoutes", "")]
    /\ UNCHANGED <<currentChain, chainConfigs, address, settings, sessions, cycle>>

\* lines 138-161
BridgeExecuteRoute(i, a) ==
    /\ ops[i].pc = "b_getRoutes"
    /\ ops' = [ops EXCEPT ![i] =
            IF ~a.ok THEN Thrown([@ EXCEPT !.answer = a], Err("BridgeFailed", a.text))
            ELSE IF NoRoutes(a.value)
            THEN Thrown([@ EXCEPT !.routes = [routes |-> a.value]],
                        Err("BridgeFailed", "No bridge routes found"))
            ELSE Issued([@ EXCEPT !.routes = [routes |-> a.value],
                                  !.executed = FirstRoute(a.value),
                                  !.options = BridgeExecutionOptions,
                                  !.pc = "executeRoute"],
                        "executeRoute", "")]
    /\ UNCHANGED <<currentChain, chainConfigs, address, settings, sessions, cycle>>

\* lines 161-191
BridgeReturn(i, a) ==
    /\ ops[i].kind = "bridge" /\ ops[i].pc = "executeRoute"
    /\ ops' = [ops EXCEPT ![i] =
            IF ~a.ok THEN Thrown([@ EXCEPT !.answer = a], Err("BridgeFailed", a.text))
            ELSE IF a.value.status = "" \/ a.value.status = "FAILED"
            THEN Thrown([@ EXCEPT !.answer = a],
                        Err("BridgeFailed", "Bridge transaction failed"))
            ELSE Returned([@ EXCEPT !.answer = a], BridgeResult(@, a.value))]
    /\ UNCHANGED <<currentChain, chainConfigs, address, settings, sessions, cycle>>

(***************************************************************************)
(* SwapAction.swap                                                         *)
(***************************************************************************)
SwapParamsOf(chain, fromToken, toToken, amount, slippage) ==
    [NoParams EXCEPT !.chain = chain, !.fromToken = fromToken, !.toToken = toToken,
                     !.amount = amount, !.slippage = slippage]

\* JavaScript truthiness of params.slippage: null and 0 are falsy
SlippageTruthy(s) == s.present /\ s.bp # 0

\* line 379 as the range check alone, without the truthiness guard
SlippageOutOfRange(s) == s.present /\ (s.bp < 1 \/ s.bp > 500)

\* line 379
SlippageRejected(s) == SlippageTruthy(s) /\ (s.bp < 1 \/ s.bp > 500)

\* lines 371-381, None when the validations pass
SwapValidationError(p) ==
    IF p.chain = "" THEN Err("InvalidParameter", "Chain is required")
    ELSE IF p.chain \notin {"ethereum", "base", "sepolia"}
    THEN Err("InvalidParameter", "Chain must be 'ethereum', 'base', or 'sepolia'")
    ELSE IF p.fromToken = "" THEN Err("InvalidParameter", "Input token is required")
    ELSE IF p.toToken = "" THEN Err("InvalidParameter", "Output token is required")
    ELSE IF p.amount = <<>> THEN Err("InvalidParameter", "Amount is required")
    ELSE IF SlippageRejected(p.slippage)
    THEN Err("InvalidParameter", "Slippage must be between 1 and 500 basis points")
    ELSE None

\* a faulty variant: the default is used whatever the caller supplied
SlippageAlwaysDefault(s) == [bp |-> 50, per |-> 10000]

\* line 395: (params.slippage || 50) / 10000, as the fraction bp / 10000
SlippageDecimal(s) == [bp |-> IF SlippageTruthy(s) THEN s.bp ELSE 50, per |-> 10000]

\* lines 398-413
SwapRequest(op) ==
    [fromChainId      |-> getChainConfigs[op.params.chain].chainId,
     toChainId        |-> getChainConfigs[op.params.chain].chainId,
     fromTokenAddress |-> op.params.fromToken,
     toTokenAddress   |-> op.params.toToken,
     fromAmount       |-> BigIntToString(op.amountInWei),
     fromAddress      |-> op.fromAddress,
     options          |-> [slippage |-> SlippageDecimal(op.params.slippage),
                           order    |-> "RECOMMENDED"]]

\* lines 419-436
SwapExecutionOptions ==
    [kind |-> "ExecutionOptions", acceptExchangeRateUpdate |-> TRUE,
     infiniteApproval |-> FALSE]

\* a faulty variant: the amount as given, not in the smallest unit
SwapResultAmountAsGiven(op, process) ==
    [hash    |-> process.txHash,
     from    |-> op.fromAddress,
     to      |-> op.executed.approvalAddress,
     value   |-> op.params.amount,
     data    |-> process.data,
     chainId |-> getChainConfigs[op.params.chain].chainId]

\* lines 447-454
SwapResult(op, process) ==
    [hash    |-> process.txHash,
     from    |-> op.fromAddress,
     to      |-> op.executed.approvalAddress,
     value   |-> BigIntToString(op.amountInWei),
     data    |-> process.data,
     chainId |-> getChainConfigs[op.params.chain].chainId]

\* lines 368-384: the call, up to `await walletClient.getAddresses()`
SwapCalled(p) ==
    LET op == NewOp("swap", p)
        e  == SwapValidationError(p)
        wc == getWalletClient(chainConfigs, currentChain)
    IN  IF e # None THEN Thrown(op, e)
        ELSE IF IsErr(wc) THEN Thrown(op, wc)
        ELSE [op EXCEPT !.pc = "s_getAddresses", !.walletClient = wc]

\* a caller of the session calls swap(p)
StartSwap(i, p) ==
    /\ ops[i].pc = "idle"
    /\ ops' = [ops EXCEPT ![i] = SwapCalled(p)]
    /\ UNCHANGED <<currentChain, chainConfigs, address, settings, sessions, cycle>>

\* lines 384-387
SwapSwitchChain(i) ==
    /\ ops[i].pc = "s_getAddresses"
    /\ currentChain' = switchChain(currentChain, ops[i].params.chain)
    /\ ops' = [ops EXCEPT ![i] = [@ EXCEPT !.fromAddress = ops[i].walletClient.account,
                                           !.pc = "s_switchChain"]]
    /\ UNCHANGED <<chainConfigs, address, settings, sessions, cycle>>

\* lines 389-413
SwapGetRoutes(i) ==
    /\ ops[i].pc = "s_switchChain"
    /\ LET wei == parseEther(ops[i].params.amount)
           op  == [ops[i] EXCEPT !.amountInWei = wei]
       IN  ops' = [ops EXCEPT ![i] =
                IF IsErr(wei) THEN Thrown(ops[i], Err("SwapFailed", wei.cause))
                ELSE Issued([op EXCEPT !.pc = "s_getRoutes", !.request = SwapRequest(op)],
                            "getRoutes", "")]
    /\ UNCHANGED <<currentChain, chainConfigs, address, settings, sessions, cycle>>

\* lines 398-438
SwapExecuteRoute(i, a) ==
    /\ ops[i].pc = "s_getRoutes"
    /\ ops' = [ops EXCEPT ![i] =
            IF ~a.ok THEN Thrown([@ EXCEPT !.answer = a], Err("SwapFailed", a.text))
            ELSE IF NoRoutes(a.value)
            THEN Thrown([@ EXCEPT !.routes = [routes |-> a.value]],
                        Err("SwapFailed", "No routes found"))
            ELSE Issued([@ EXCEPT !.routes = [routes |-> a.value],
                                  !.executed = FirstRoute(a.value),
                                  !.options = SwapExecutionOptions,
                                  !.pc = "executeRoute"],
                        "executeRoute", "")]
    /\ UNCHANGED <<currentChain, chainConfigs, address, settings, sessions, cycle>>

\* a faulty variant: a swap whose execution fails restores the chain the
\* session had when the swap was called
SwapReturnRollsBack(i, a) ==
    /\ ops[i].kind = "swap" /\ ops[i].pc = "executeRoute"
    /\ ops' = [ops EXCEPT ![i] =
            IF ~a.ok THEN Thrown([@ EXCEPT !.answer = a], Err("SwapFailed", a.text))
            ELSE IF a.value.status = "" \/ a.value.status = "FAILED"
            THEN Thrown([@ EXCEPT !.answer = a], Err("SwapFailed", "Transaction failed"))
            ELSE Returned([@ EXCEPT !.answer = a], SwapResult(@, a.value))]
    /\ currentChain' = IF a.ok /\ a.value.status \notin {"", "FAILED"} THEN currentChain
                       ELSE ops[i].pre
    /\ UNCHANGED <<chainConfigs, address, settings, sessions, cycle>>

\* lines 438-458
SwapReturn(i, a) ==
    /\ ops[i].kind = "swap" /\ ops[i].pc = "executeRoute"
    /\ ops' = [ops EXCEPT ![i] =
            IF ~a.ok THEN Thrown([@ EXCEPT !.answer = a], Err("SwapFailed", a.text))
            ELSE IF a.value.status = "" \/ a.value.status = "FAILED"
            THEN Thrown([@ EXCEPT !.answer = a], Err("SwapFailed", "Transaction failed"))
            ELSE Returned([@ EXCEPT !.answer = a], SwapResult(@, a.value))]
    /\ UNCHANGED <<currentChain, chainConfigs, address, settings, sessions, cycle>>

(***************************************************************************)
(* The two callbacks registered with the aggregator (evmProviderConfig),   *)
(* which the aggregator may invoke while a route executes.                 *)
(***************************************************************************)
Callback(name, arg, ret) == [name |-> name, arg |-> arg, ret |-> ret]

Executing(i) == ops[i].pc = "executeRoute" /\ Len(ops[i].cbLog) < MaxCallbacks

\* getWalletClient: async () => this.walletProvider.getWalletClient()
CallbackGetWalletClient(i) ==
    /\ Executing(i)
    /\ ops' = [ops EXCEPT ![i].cbLog =
            Append(@, Callback("getWalletClient", 0,
                               getWalletClient(chainConfigs, currentChain)))]
    /\ UNCHANGED <<currentChain, chainConfigs, address, settings, sessions, cycle>>

\* switchChain: async (chainId) => ..., up to `await walletProvider.switchChain`
CallbackSwitchChain(i, chainId) ==
    /\ Executing(i)
    /\ IF ChainNameOf(chainId) = ""
       THEN /\ ops' = [ops EXCEPT ![i].cbLog =
                    Append(@, Callback("switchChain", chainId,
                                       Err("Error", "Chain ID not supported")))]
            /\ UNCHANGED currentChain
       ELSE /\ currentChain' = switchChain(currentChain, ChainNameOf(chainId))
            /\ ops' = [ops EXCEPT ![i] =
                    [@ EXCEPT !.pc = "cb_switchChain",
                              !.cbLog = Append(@, Callback("switchChain", chainId, None))]]
    /\ UNCHANGED <<chainConfigs, address, settings, sessions, cycle>>

\* the callback resumes after the await and returns getWalletClient()
CallbackSwitchChainReturn(i) ==
    /\ ops[i].pc = "cb_switchChain"
    /\ LET log == ops[i].cbLog
       IN  ops' = [ops EXCEPT ![i] =
                [@ EXCEPT !.pc = "executeRoute",
                          !.cbLog = [log EXCEPT ![Len(log)].ret =
                                        getWalletClient(chainConfigs, currentChain)]]]
    /\ UNCHANGED <<currentChain, chainConfigs, address, settings, sessions, cycle>>

(***************************************************************************)
(* A direct call of WalletProvider.switchChain by a caller of the session. *)
(* It has no await: it runs to its end in one step.                        *)
(***************************************************************************)
CallSwitchChain(i, chain) ==
    /\ Constructed
    /\ ops[i].pc = "idle"
    /\ currentChain' = switchChain(currentChain, chain)
    /\ ops' = [ops EXCEPT ![i] =
            Returned(NewOp("switchChain", [NoParams EXCEPT !.chain = chain]), Undefined)]
    /\ UNCHANGED <<chainConfigs, address, settings, sessions, cycle>>

\* a direct call of WalletProvider.getAddress()
CallGetAddress(i) ==
    /\ Constructed
    /\ ops[i].pc = "idle"
    /\ ops' = [ops EXCEPT ![i] = Returned(NewOp("getAddress", NoParams), address)]
    /\ UNCHANGED <<currentChain, chainConfigs, address, settings, sessions, cycle>>

\* the caller takes the outcome; the slot is free again
Collect(i) ==
    /\ ops[i].pc = "done"
    /\ ops' = [ops EXCEPT ![i] = IdleOp]
    /\ UNCHANGED <<currentChain, chainConfigs, address, settings, sessions, cycle>>

(***************************************************************************)
(* The parameters the callers pass.                                        *)
(***************************************************************************)
DataInputs == {"null", "0xdata"}

TokenInputs == {"", ZeroAddress}

SlippageInputs ==
    {NoSlippage} \cup {Slippage(n) : n \in {-5, 0, 1, 50, 500, 501, 600}}

TransferInputs ==
    {TransferParamsOf(c, a, m, d) :
        c \in ChainInputs, a \in AddrInputs, m \in AmountInputs, d \in DataInputs}

BridgeInputs ==
    {BridgeParamsOf(c, tc, m, a) :
        c \in ChainInputs, tc \in ChainInputs, m \in AmountInputs,
        a \in {NoAddr, GoodAddr, NonHexAddr}}

SwapInputs ==
    {SwapParamsOf(c, ft, tt, m, s) :
        c \in ChainInputs, ft \in TokenInputs, tt \in TokenInputs,
        m \in AmountInputs, s \in SlippageInputs}

\* the parameters of operations that run concurrently on one session
ConcurrentChains == {"ethereum", "base"}

ConcurrentTransferInputs ==
    {TransferParamsOf(c, GoodAddr, AmountOne, "null") : c \in ConcurrentChains}

ConcurrentBridgeInputs ==
    {BridgeParamsOf(c, "base", AmountOne, NoAddr) : c \in ConcurrentChains}

ConcurrentSwapInputs ==
    {SwapParamsOf(c, ZeroAddress, ZeroAddress, AmountOne, NoSlippage) :
        c \in ConcurrentChains}

(***************************************************************************)
(* The conversion of the amount, called on its own with many strings.      *)
(***************************************************************************)
AmountAlphabet == {"0", "1", "9", ".", "-"}

ShortAmounts == UNION {[1..n -> AmountAlphabet] : n \in 0..MaxAmountLen}

\* amounts with 17, 18 and 19 fractional digits
LongAmounts ==
    {<<w, ".">> \o Repeat(z, k) \o <<d>> :
        w \in {"0", "1"}, z \in {"0", "9"}, k \in 16..18, d \in {"1", "5", "9"}}

AmountStrings == ShortAmounts \cup LongAmounts

\* const amountInWei = parseEther(params.amount)
CallParseEther(i, s) ==
    /\ \A j \in Slots : ops[j].pc = "idle"
    /\ LET op  == NewOp("parseEther", [NoParams EXCEPT !.amount = s])
           wei == parseEther(s)
       IN  ops' = [ops EXCEPT ![i] =
                IF IsErr(wei) THEN Thrown(op, wei)
                ELSE Returned([op EXCEPT !.amountInWei = wei], wei)]
    /\ UNCHANGED <<currentChain, chainConfigs, address, settings, sessions, cycle>>

(***************************************************************************)
(* The state after `new WalletProvider(runtime)` (lines 64-102).           *)
(***************************************************************************)
Init ==
    /\ currentChain = "ethereum"
    /\ chainConfigs = [c \in SupportedChain |-> createClients(c)]
    /\ address = Account
    /\ settings = None
    /\ sessions = [s \in SessionIds |-> None]
    /\ cycle = IdleCycle
    /\ ops = [i \in Slots |-> IdleOp]

\* no invocation is in flight and no outcome waits to be taken
Quiescent == \A i \in Slots : ops[i].pc = "idle"

(***************************************************************************)
(* The environment: the answers the chain nodes and the aggregator may     *)
(* give.  Operations that run concurrently are explored with fewer         *)
(* different answers.                                                      *)
(***************************************************************************)
Answers(values, errors) == {Ok(v) : v \in values} \cup {Fail(e) : e \in errors}

SerialEnv ==
    [balances |-> BalanceValues \cup {Null},
     queries  |-> Answers(BalanceValues, RpcErrors),
     plain    |-> PlainAnswers,
     hashes   |-> Answers(Hashes, RpcErrors),
     routes   |-> RouteAnswers,
     execs    |-> ExecAnswers,
     chainIds |-> CallbackChainIds]

ConcurrentEnv ==
    [balances |-> {BalanceTwo, Null},
     queries  |-> Answers({BalanceTwo}, {"execution reverted"}),
     plain    |-> Answers({"value"}, {"execution reverted"}),
     hashes   |-> Answers({"0xabc"}, {"execution reverted"}),
     routes   |-> Answers({<<>>, <<Route(1)>>}, {"request timed out"}),
     execs    |-> {a \in ExecAnswers : a.ok => a.value.txHash = "0xabc"},
     chainIds |-> {DEFAULT_CHAIN_CONFIGS[c].chainId : c \in ConcurrentChains}
                    \cup {UnknownChainId}]

\* the continuations of the invocation in slot i
Resume(i, env) ==
    \/ TransferSwitchChain(i)
    \/ TransferQueryBalance(i)
    \/ \E b \in env.balances : TransferEstimateGas(i, b)
    \/ \E a \in env.plain : TransferGetGasPrice(i, a)
    \/ \E a \in env.plain : TransferGetNonce(i, a)
    \/ \E a \in env.plain : TransferSign(i, a)
    \/ \E a \in env.plain : TransferBroadcast(i, a)
    \/ \E a \in env.hashes : TransferReturn(i, a)
    \/ BridgeSwitchChain(i)
    \/ BridgeQueryBalance(i)
    \/ \E b \in env.balances : BridgeGetRoutes(i, b)
    \/ \E a \in env.routes : BridgeExecuteRoute(i, a)
    \/ \E a \in env.execs : BridgeReturn(i, a)
    \/ SwapSwitchChain(i)
    \/ SwapGetRoutes(i)
    \/ \E a \in env.routes : SwapExecuteRoute(i, a)
    \/ \E a \in env.execs : SwapReturn(i, a)
    \/ CallbackGetWalletClient(i)
    \/ \E id \in env.chainIds : CallbackSwitchChain(i, id)
    \/ CallbackSwitchChainReturn(i)
    \/ \E a \in env.queries : GetWalletBalanceReturn(i, a)
    \/ Collect(i)

\* one caller at a time: an invocation begins only on a quiescent session
SerialStart(i) ==
    /\ Quiescent
    /\ \/ \E p \in TransferInputs : StartTransfer(i, p)
       \/ \E p \in BridgeInputs : StartBridge(i, p)
       \/ \E p \in SwapInputs : StartSwap(i, p)
       \/ \E c \in ChainInputs : CallSwitchChain(i, c)
       \/ CallGetWalletBalance(i)
       \/ CallGetAddress(i)

\* callers that do not wait for one another
ConcurrentStart(i) ==
    \/ \E p \in ConcurrentTransferInputs : StartTransfer(i, p)
    \/ \E p \in ConcurrentBridgeInputs : StartBridge(i, p)
    \/ \E p \in ConcurrentSwapInputs : StartSwap(i, p)
    \/ \E c \in ConcurrentChains : CallSwitchChain(i, c)
    \/ CallGetWalletBalance(i)

Next == \E i \in Slots : SerialStart(i) \/ Resume(i, SerialEnv)

NextConcurrent == \E i \in Slots : ConcurrentStart(i) \/ Resume(i, ConcurrentEnv)

\* operations issued one after the other on one session
Spec == Init /\ [][Next]_vars

\* operations issued concurrently on one session
SpecConcurrent == Init /\ [][NextConcurrent]_vars

(***************************************************************************)
(* The construction of the session under a registry override, and the      *)
(* session's accessors called on their own.                                *)
(***************************************************************************)
ChainMetadata(c) ==
    IF c \in SupportedChain THEN DEFAULT_CHAIN_CONFIGS[c]
    ELSE [chainId |-> UnknownChainId, name |-> c]

\* the mappings a character may configure as settings.chains.evm
OverrideRegistries ==
    {[c \in S |-> ChainMetadata(c)] :
        S \in (SUBSET (SupportedChain \cup {UnknownChainName})) \ {{}}}

\* no WalletProvider has been constructed yet
NotBuilt == [c \in {} |-> None]

InitRegistry ==
    /\ settings \in {None} \cup OverrideRegistries
    /\ currentChain = "ethereum"
    /\ chainConfigs = NotBuilt
    /\ address = NoAddr
    /\ sessions = [s \in SessionIds |-> None]
    /\ cycle = IdleCycle
    /\ ops = [i \in Slots |-> IdleOp]

\* new WalletProvider(runtime), lines 70-102
Construct(i) ==
    /\ ~Constructed
    /\ ops[i].pc = "idle"
    /\ IF SupportedChain \subseteq DOMAIN getChainConfigs
       THEN /\ address' = Account
            /\ chainConfigs' = [c \in SupportedChain |-> createClients(c)]
            /\ ops' = [ops EXCEPT ![i] = Returned(NewOp("constructor", NoParams), Undefined)]
       ELSE /\ ops' = [ops EXCEPT ![i] = Thrown(NewOp("constructor", NoParams), TypeError)]
            /\ UNCHANGED <<address, chainConfigs>>
    /\ UNCHANGED <<currentChain, settings, sessions, cycle>>

\* a direct call of WalletProvider.getChainConfig(chain)
CallGetChainConfig(i, chain) ==
    /\ Constructed
    /\ ops[i].pc = "idle"
    /\ ops' = [ops EXCEPT ![i] =
            Returned(NewOp("getChainConfig", [NoParams EXCEPT !.chain = chain]),
                     [value |-> getChainConfig(chain)])]
    /\ UNCHANGED <<currentChain, chainConfigs, address, settings, sessions, cycle>>

\* a direct call of WalletProvider.getWalletClient()
CallGetWalletClient(i) ==
    /\ Constructed
    /\ ops[i].pc = "idle"
    /\ LET op == NewOp("getWalletClient", NoParams)
           wc == getWalletClient(chainConfigs, currentChain)
       IN  ops' = [ops EXCEPT ![i] = IF IsErr(wc) THEN Thrown(op, wc) ELSE Returned(op, wc)]
    /\ UNCHANGED <<currentChain, chainConfigs, address, settings, sessions, cycle>>

\* a direct call of WalletProvider.connect()
CallConnect(i) ==
    /\ Constructed
    /\ ops[i].pc = "idle"
    /\ ops' = [ops EXCEPT ![i] = Returned(NewOp("connect", NoParams), connect)]
    /\ UNCHANGED <<currentChain, chainConfigs, address, settings, sessions, cycle>>

\* a faulty variant: looking up the query client of a chain makes it current
CallGetPublicClientSwitching(i, chain) ==
    /\ Constructed
    /\ ops[i].pc = "idle"
    /\ LET op == NewOp("getPublicClient", [NoParams EXCEPT !.chain = chain])
           pc == getPublicClient(chainConfigs, chain)
       IN  ops' = [ops EXCEPT ![i] = IF IsErr(pc) THEN Thrown(op, pc) ELSE Returned(op, pc)]
    /\ currentChain' = chain
    /\ UNCHANGED <<chainConfigs, address, settings, sessions, cycle>>

\* a direct call of WalletProvider.getPublicClient(chain)
CallGetPublicClient(i, chain) ==
    /\ Constructed
    /\ ops[i].pc = "idle"
    /\ LET op == NewOp("getPublicClient", [NoParams EXCEPT !.chain = chain])
           pc == getPublicClient(chainConfigs, chain)
       IN  ops' = [ops EXCEPT ![i] = IF IsErr(pc) THEN Thrown(op, pc) ELSE Returned(op, pc)]
    /\ UNCHANGED <<currentChain, chainConfigs, address, settings, sessions, cycle>>

\* a direct call of WalletProvider.getCurrentChain()
CallGetCurrentChain(i) ==
    /\ Constructed
    /\ ops[i].pc = "idle"
    /\ ops' = [ops EXCEPT ![i] =
            Returned(NewOp("getCurrentChain", NoParams), [value |-> currentChain])]
    /\ UNCHANGED <<currentChain, chainConfigs, address, settings, sessions, cycle>>

NextRegistry ==
    \E i \in Slots :
        \/ Construct(i)
        \/ \E c \in ChainInputs : CallSwitchChain(i, c)
        \/ \E c \in ChainInputs : CallGetChainConfig(i, c)
        \/ CallGetWalletClient(i)
        \/ CallConnect(i)
        \/ CallGetAddress(i)
        \/ \E c \in ChainInputs : CallGetPublicClient(i, c)
        \/ CallGetCurrentChain(i)
        \/ CallGetWalletBalance(i)
        \/ \E a \in SerialEnv.queries : GetWalletBalanceReturn(i, a)
        \/ Collect(i)

\* sessions constructed under every registry, and their accessors
SpecRegistry == InitRegistry /\ [][NextRegistry]_vars

\* the session of a character whose settings.chains.evm registers the three
\* default chains and one more: the constructor builds the clients of
\* ethereum, base and sepolia
InitOverride ==
    /\ settings = [c \in SupportedChain \cup {UnknownChainName} |-> ChainMetadata(c)]
    /\ currentChain = "ethereum"
    /\ chainConfigs = [c \in SupportedChain |-> createClients(c)]
    /\ address = Account
    /\ sessions = [s \in SessionIds |-> None]
    /\ cycle = IdleCycle
    /\ ops = [i \in Slots |-> IdleOp]

\* operations issued one after the other on that session
SpecOverride == InitOverride /\ [][Next]_vars

\* the session of a character with no settings.chains.evm, and of characters
\* whose settings.chains.evm lets the constructor run: the three default
\* chains, alone or with one more
InitConfigured ==
    /\ settings \in {None} \cup {r \in OverrideRegistries : SupportedChain \subseteq DOMAIN r}
    /\ currentChain = "ethereum"
    /\ chainConfigs = [c \in SupportedChain |-> createClients(c)]
    /\ address = Account
    /\ sessions = [s \in SessionIds |-> None]
    /\ cycle = IdleCycle
    /\ ops = [i \in Slots |-> IdleOp]

\* operations issued one after the other on such a session
SpecConfigured == InitConfigured /\ [][Next]_vars

NextAmount ==
    \E i \in Slots : (\E s \in AmountStrings : CallParseEther(i, s)) \/ Collect(i)

\* the amount conversion alone, over many amount strings
SpecAmount == Init /\ [][NextAmount]_vars

(***************************************************************************)
(* The action handlers (transferAction, bridgeAction, swapAction and       *)
(* getbalanceAction).  Every invocation constructs a WalletProvider of its *)
(* own and runs its operation on it.  Of the operation, the steps that     *)
(* read or write the session are modelled one by one; the requests in      *)
(* between, which touch no session, are one step whose outcome the         *)
(* environment picks.  A handler catches every error and returns false.    *)
(***************************************************************************)
\* the fields of a WalletProvider after its constructor has run
NewSession ==
    [currentChain |-> "ethereum",
     chainConfigs |-> [c \in SupportedChain |-> createClients(c)],
     address      |-> Account]

\* a faulty variant: every handler works on one and the same WalletProvider
AliasedSession == CHOOSE s \in SessionIds : TRUE

\* `new WalletProvider(runtime)`: an object no invocation in flight refers to
FreshSession == CHOOSE s \in SessionIds : sessions[s] = None

\* the parameters the handlers extract from the message, by handler
HandlerInputs ==
    [transfer   |-> ConcurrentTransferInputs
                        \cup {TransferParamsOf("base", GoodAddr, AmountZero, "null"),
                              TransferParamsOf(UnknownChainName, GoodAddr, AmountOne, "null")},
     bridge     |-> ConcurrentBridgeInputs,
     swap       |-> ConcurrentSwapInputs,
     getbalance |-> {[NoParams EXCEPT !.chain = c, !.fromToken = t] :
                        c \in ConcurrentChains \cup {UnknownChainName},
                        t \in TokenInputs}]

\* the handler ends: it invokes the callback, if one was supplied, with the
\* success message and returns true, or catches e, invokes the callback with
\* the error text and returns false; its WalletProvider, if it has constructed
\* one, is not referred to any longer
HandlerEnd(i, op, e) ==
    /\ ops' = [ops EXCEPT ![i] =
            Returned([op EXCEPT !.callback.calls =
                        IF op.callback.supplied
                        THEN Append(@, IF e = None THEN "success" ELSE e.cause)
                        ELSE @],
                     IF e = None THEN Ok("true") ELSE Fail(e.cause))]
    /\ sessions' = IF op.sid = 0 THEN sessions ELSE [sessions EXCEPT ![op.sid] = None]

\* the content validators of the handlers, on the parameters as modelled: the
\* chains are among the three listed, the amount is not NaN, an address
\* starts with 0x and has 42 characters
isTransferContent(p) ==
    /\ p.chain \in {"ethereum", "base", "sepolia"}
    /\ JsNumber(p.amount) # "NaN"
    /\ p.toAddress.starts0x /\ p.toAddress.length = 42
    /\ p.data \in DataInputs

isBridgeContent(p) ==
    /\ p.chain \in {"ethereum", "base", "sepolia"}
    /\ p.toChain \in {"ethereum", "base", "sepolia"}
    /\ JsNumber(p.amount) # "NaN"
    /\ (p.toAddress = NoAddr \/ (p.toAddress.starts0x /\ p.toAddress.length = 42))

isSwapContent(p) ==
    /\ p.chain \in {"ethereum", "base", "sepolia"}
    /\ JsNumber(p.amount) # "NaN"

isGetBalanceContent(p) ==
    /\ p.chain \in {"ethereum", "base", "sepolia"}
    /\ p.fromToken \in TokenInputs

\* the handler is invoked, with or without a callback, and runs up to the
\* first of its awaits before the content is there (composeState or
\* updateRecentMessageState, evmWalletProvider.get, generateObject)
HandlerCompose(i, kind, cb) ==
    /\ ops[i].pc = "idle"
    /\ ops' = [ops EXCEPT ![i] =
            [NewOp(kind, NoParams) EXCEPT !.pc = "h_content",
                                          !.pre = NewSession.currentChain,
                                          !.callback = [supplied |-> cb, calls |-> <<>>]]]
    /\ UNCHANGED <<currentChain, chainConfigs, address, settings, sessions, cycle>>

\* the state composition or the parameter extraction fails with the text e
HandlerContentFailed(i, e) ==
    /\ ops[i].pc = "h_content"
    /\ HandlerEnd(i, ops[i], Err("Error", e))
    /\ UNCHANGED <<currentChain, chainConfigs, address, settings, cycle>>

\* the content p is there: the handler validates it, constructs its
\* WalletProvider and calls its operation, which runs up to its first await:
\* getbalance up to `await switchChain`, the others up to
\* `await walletClient.getAddresses()`
HandlerNew(i, kind, p) ==
    /\ ops[i].pc = "h_content" /\ ops[i].kind = kind
    /\ LET s  == FreshSession
           op == [ops[i] EXCEPT !.params = p]
           ok == CASE kind = "transfer" -> isTransferContent(p)
                   [] kind = "bridge"   -> isBridgeContent(p)
                   [] kind = "swap"     -> isSwapContent(p)
                   [] OTHER             -> isGetBalanceContent(p)
           e  == CASE kind = "transfer" -> TransferValidationError(p)
                   [] kind = "bridge"   -> BridgeValidationError(p)
                   [] kind = "swap"     -> SwapValidationError(p)
                   [] OTHER             -> None
       IN  IF ~ok
           THEN HandlerEnd(i, op, Err("Error", "Invalid content structure"))
           ELSE IF kind = "getbalance"
           THEN /\ sessions' = [sessions EXCEPT ![s] =
                        [NewSession EXCEPT !.currentChain = switchChain(@, p.chain)]]
                /\ ops' = [ops EXCEPT ![i] = [op EXCEPT !.sid = s, !.pc = "h_switchChain"]]
           ELSE IF e # None
           THEN HandlerEnd(i, [op EXCEPT !.sid = s], e)
           ELSE /\ sessions' = [sessions EXCEPT ![s] = NewSession]
                /\ ops' = [ops EXCEPT ![i] =
                        [op EXCEPT !.sid = s,
                                   !.pc = "h_getAddresses",
                                   !.walletClient =
                                        getWalletClient(NewSession.chainConfigs,
                                                        NewSession.currentChain)]]
    /\ UNCHANGED <<currentChain, chainConfigs, address, settings, cycle>>

\* transfer, bridge and swap: fromAddress, then switchChain(params.chain) on
\* the handler's own WalletProvider
HandlerSwitchChain(i) ==
    /\ ops[i].pc = "h_getAddresses"
    /\ LET op == [ops[i] EXCEPT !.fromAddress = ops[i].walletClient.account]
       IN  IF op.kind = "transfer" /\ getChainConfig(op.params.chain) = None
           THEN HandlerEnd(i, op, TypeError)
           ELSE /\ sessions' = [sessions EXCEPT ![op.sid].currentChain =
                                    switchChain(@, op.params.chain)]
                /\ ops' = [ops EXCEPT ![i] = [op EXCEPT !.pc = "h_switchChain"]]
    /\ UNCHANGED <<currentChain, chainConfigs, address, settings, cycle>>

\* after `await switchChain`: the operation reads the clients of its own
\* WalletProvider (transfer: the updated signing client and the balance query;
\* bridge and the native getbalance: the balance query; the token getbalance:
\* the query client of params.chain; swap: none), and issues its requests
HandlerRead(i) ==
    /\ ops[i].pc = "h_switchChain"
    /\ LET op   == ops[i]
           sess == sessions[op.sid]
           uwc  == getWalletClient(sess.chainConfigs, sess.currentChain)
           pub  == getPublicClient(sess.chainConfigs, op.params.chain)
           next == [op EXCEPT !.pc = "h_requests"]
       IN  CASE op.kind = "transfer" ->
                    IF IsErr(uwc) THEN HandlerEnd(i, op, uwc)
                    ELSE /\ ops' = [ops EXCEPT ![i] =
                                BalanceQueried([next EXCEPT !.updatedWalletClient = uwc],
                                               sess.chainConfigs, sess.currentChain)]
                         /\ UNCHANGED sessions
              [] op.kind = "getbalance" /\ op.params.fromToken # "" ->
                    IF IsErr(pub) THEN HandlerEnd(i, op, pub)
                    ELSE /\ ops' = [ops EXCEPT ![i] = Issued(next, "readContract", pub.chain)]
                         /\ UNCHANGED sessions
              [] op.kind = "swap" ->
                    /\ ops' = [ops EXCEPT ![i] = Issued(next, "getRoutes", "")]
                    /\ UNCHANGED sessions
              [] OTHER ->
                    /\ ops' = [ops EXCEPT ![i] =
                            BalanceQueried(next, sess.chainConfigs, sess.currentChain)]
                    /\ UNCHANGED sessions
    /\ UNCHANGED <<currentChain, chainConfigs, address, settings, cycle>>

\* the requests of the operation settle.  The native getbalance takes a
\* failed balance query for a balance of zero (getWalletBalance() ?? BigInt(0))
\* and ends; for the others a failure ends the handler; otherwise transfer and
\* getbalance end, swap and bridge go on to executeRoute
HandlerRequests(i, a) ==
    /\ ops[i].pc = "h_requests"
    /\ IF ops[i].kind = "getbalance" /\ ops[i].params.fromToken = ""
       THEN HandlerEnd(i, [ops[i] EXCEPT !.answer = a], None)
       ELSE IF ~a.ok THEN HandlerEnd(i, [ops[i] EXCEPT !.answer = a], Err("Error", a.text))
       ELSE IF ops[i].kind \in {"transfer", "getbalance"}
       THEN HandlerEnd(i, [ops[i] EXCEPT !.answer = a], None)
       ELSE /\ ops' = [ops EXCEPT ![i] =
                    Issued([@ EXCEPT !.pc = "h_executeRoute"], "executeRoute", "")]
            /\ UNCHANGED sessions
    /\ UNCHANGED <<currentChain, chainConfigs, address, settings, cycle>>

\* the aggregator invokes the getWalletClient callback of the handler's action
HandlerCallbackGetWalletClient(i) ==
    /\ ops[i].pc = "h_executeRoute" /\ Len(ops[i].cbLog) < MaxCallbacks
    /\ LET sess == sessions[ops[i].sid]
       IN  ops' = [ops EXCEPT ![i].cbLog =
                Append(@, Callback("getWalletClient", 0,
                                   getWalletClient(sess.chainConfigs, sess.currentChain)))]
    /\ UNCHANGED <<currentChain, chainConfigs, address, settings, sessions, cycle>>

\* the aggregator invokes the switchChain callback of the handler's action
HandlerCallbackSwitchChain(i, chainId) ==
    /\ ops[i].pc = "h_executeRoute" /\ Len(ops[i].cbLog) < MaxCallbacks
    /\ IF ChainNameOf(chainId) = ""
       THEN /\ ops' = [ops EXCEPT ![i].cbLog =
                    Append(@, Callback("switchChain", chainId,
                                       Err("Error", "Chain ID not supported")))]
            /\ UNCHANGED sessions
       ELSE /\ sessions' = [sessions EXCEPT ![ops[i].sid].currentChain =
                                switchChain(@, ChainNameOf(chainId))]
            /\ ops' = [ops EXCEPT ![i] =
                    [@ EXCEPT !.pc = "h_cbSwitchChain",
                              !.cbLog = Append(@, Callback("switchChain", chainId, None))]]
    /\ UNCHANGED <<currentChain, chainConfigs, address, settings, cycle>>

\* the callback resumes after its await and returns getWalletClient()
HandlerCallbackReturn(i) ==
    /\ ops[i].pc = "h_cbSwitchChain"
    /\ LET log  == ops[i].cbLog
           sess == sessions[ops[i].sid]
       IN  ops' = [ops EXCEPT ![i] =
                [@ EXCEPT !.pc = "h_executeRoute",
                          !.cbLog = [log EXCEPT ![Len(log)].ret =
                                        getWalletClient(sess.chainConfigs,
                                                        sess.currentChain)]]]
    /\ UNCHANGED <<currentChain, chainConfigs, address, settings, sessions, cycle>>

\* executeRoute settles and the handler ends
HandlerReturn(i, a) ==
    /\ ops[i].pc = "h_executeRoute"
    /\ HandlerEnd(i, [ops[i] EXCEPT !.answer = a],
                  IF a.ok THEN None ELSE Err("Error", a.text))
    /\ UNCHANGED <<currentChain, chainConfigs, address, settings, cycle>>

NextHandlers ==
    \E i \in Slots :
        \/ \E k \in DOMAIN HandlerInputs : \E cb \in BOOLEAN : HandlerCompose(i, k, cb)
        \/ \E e \in {"request timed out"} : HandlerContentFailed(i, e)
        \/ \E k \in DOMAIN HandlerInputs : \E p \in HandlerInputs[k] : HandlerNew(i, k, p)
        \/ HandlerSwitchChain(i)
        \/ HandlerRead(i)
        \/ \E a \in ConcurrentEnv.plain : HandlerRequests(i, a)
        \/ HandlerCallbackGetWalletClient(i)
        \/ \E id \in ConcurrentEnv.chainIds : HandlerCallbackSwitchChain(i, id)
        \/ HandlerCallbackReturn(i)
        \/ \E a \in ConcurrentEnv.plain : HandlerReturn(i, a)
        \/ Collect(i)

\* handler invocations that do not wait for one another
SpecHandlers == Init /\ [][NextHandlers]_vars

(***************************************************************************)
(* AutoClientInterface: one trading cycle (makeTrades, executeTrades) on   *)
(* the WalletProvider the interface constructed.  The swaps are those of   *)
(* SwapAction.swap, in one invocation slot.  Cycles that overlap (the      *)
(* hourly timer firing while a cycle is still running) are not explored.   *)
(***************************************************************************)
\* the slot of the swap that executeTrades awaits
TradeSlot == CHOOSE i \in Slots : \A j \in Slots : i <= j

\* a TokenAnalysis, by what executeTrades reads of it; the confidence is in
\* hundredths, so 80 is the 0.8 of the source
Analyses ==
    {[address |-> a, recommendation |-> r, confidence |-> c] :
        a \in {"0xTokenA", "0xTokenB"}, r \in {"buy", "sell"}, c \in {80, 90}}

AnalysisLists == UNION {[1..n -> Analyses] : n \in 0..MaxAnalyses}

\* line 384
Tradable(analysis) == analysis.recommendation = "buy" /\ analysis.confidence > 80

\* lines 387-393: the parameters of the swap for an analysis
TradeParams(analysis) ==
    SwapParamsOf("ethereum", ZeroAddress, analysis.address, <<"0", ".", "1">>, Slippage(50))

\* the index of the first tradable analysis after index k, 0 when there is none
NextTradable(analyses, k) ==
    IF \E n \in (k + 1)..Len(analyses) : Tradable(analyses[n])
    THEN CHOOSE n \in (k + 1)..Len(analyses) :
            /\ Tradable(analyses[n])
            /\ \A l \in (k + 1)..(n - 1) : ~Tradable(analyses[l])
    ELSE 0

\* the for loop of executeTrades from the analysis after index k on: it calls
\* swap for the next tradable analysis and awaits it, or ends, and with it
\* makeTrades
TradeLoop(c, k) ==
    LET n == NextTradable(c.analyses, k)
    IN  IF n = 0
        THEN /\ cycle' = [c EXCEPT !.pc = "done", !.next = 0]
             /\ ops' = [ops EXCEPT ![TradeSlot] = IdleOp]
        ELSE /\ cycle' = [c EXCEPT !.pc = "swap", !.next = n]
             /\ ops' = [ops EXCEPT ![TradeSlot] = SwapCalled(TradeParams(c.analyses[n]))]

\* makeTrades is called and runs up to its awaits of the recommendations and
\* of their analyses (lines 402-409)
MakeTrades ==
    /\ cycle.pc \in {"idle", "done"}
    /\ ops[TradeSlot].pc = "idle"
    /\ cycle' = [IdleCycle EXCEPT !.pc = "analyse"]
    /\ UNCHANGED <<currentChain, chainConfigs, address, settings, sessions, ops>>

\* getHighTrustRecommendations or analyzeTokens rejects: the catch of
\* makeTrades logs the error (lines 417-419)
AnalysesFailed(e) ==
    /\ cycle.pc = "analyse"
    /\ cycle' = [cycle EXCEPT !.pc = "done", !.caught = Err("Error", e)]
    /\ UNCHANGED <<currentChain, chainConfigs, address, settings, sessions, ops>>

\* the analyses are there: executeTrades(analyses), up to the first swap
ExecuteTrades(analyses) ==
    /\ cycle.pc = "analyse"
    /\ TradeLoop([cycle EXCEPT !.analyses = analyses], 0)
    /\ UNCHANGED <<currentChain, chainConfigs, address, settings, sessions>>

\* a faulty variant: a swap that fails ends the cycle
TradeSettledStopsAtFailure ==
    /\ cycle.pc = "swap"
    /\ ops[TradeSlot].pc = "done"
    /\ LET op == ops[TradeSlot]
           c  == [cycle EXCEPT !.swaps = Append(@, [address |-> op.params.toToken,
                                                    ok      |-> op.error = None])]
       IN  IF op.error # None
           THEN /\ cycle' = [c EXCEPT !.pc = "done", !.next = 0, !.caught = op.error]
                /\ ops' = [ops EXCEPT ![TradeSlot] = IdleOp]
           ELSE TradeLoop(c, cycle.next)
    /\ UNCHANGED <<currentChain, chainConfigs, address, settings, sessions>>

\* the awaited swap has settled: it returned, or it threw and the catch of
\* the loop body logged the error (lines 394-397); the loop goes on
TradeSettled ==
    /\ cycle.pc = "swap"
    /\ ops[TradeSlot].pc = "done"
    /\ LET op == ops[TradeSlot]
           c  == [cycle EXCEPT !.swaps = Append(@, [address |-> op.params.toToken,
                                                    ok      |-> op.error = None])]
       IN  TradeLoop(c, cycle.next)
    /\ UNCHANGED <<currentChain, chainConfigs, address, settings, sessions>>

NextTrades ==
    \/ MakeTrades
    \/ \E e \in RpcErrors : AnalysesFailed(e)
    \/ \E analyses \in AnalysisLists : ExecuteTrades(analyses)
    \/ TradeSettled
    \/ SwapSwitchChain(TradeSlot)
    \/ SwapGetRoutes(TradeSlot)
    \/ \E a \in ConcurrentEnv.routes : SwapExecuteRoute(TradeSlot, a)
    \/ \E a \in ConcurrentEnv.execs : SwapReturn(TradeSlot, a)
    \/ CallbackGetWalletClient(TradeSlot)
    \/ \E id \in ConcurrentEnv.chainIds : CallbackSwitchChain(TradeSlot, id)
    \/ CallbackSwitchChainReturn(TradeSlot)

\* trading cycles, one after the other
SpecTrades == Init /\ [][NextTrades]_vars

(***************************************************************************)
(* Properties.                                                             *)
(***************************************************************************)
\* C1: on a session with no other operation in flight, while a transfer's
\* transaction is being signed and while it is being broadcast, the client
\* that signs is the signing client bound to params.fromChain, the signing
\* request went to that chain's client, and currentChain is params.fromChain.
C1_TransferSignsOnFromChain ==
    \A i \in Slots :
        (ops[i].kind = "transfer"
            /\ ops[i].pc \in {"t_signTransaction", "t_sendRawTransaction"})
        => /\ ops[i].params.chain \in DOMAIN chainConfigs
           /\ TransferSigningClient(ops[i]) = chainConfigs[ops[i].params.chain].walletClient
           /\ currentChain = ops[i].params.chain
           /\ \A k \in 1..Len(ops[i].calls) :
                ops[i].calls[k].name = "signTransaction"
                    => ops[i].calls[k].on = ops[i].params.chain

\* a transfer broadcasts on a chain that was not current when it began
C1_Witness ==
    \E i \in Slots :
        /\ ops[i].kind = "transfer"
        /\ ops[i].pc = "t_sendRawTransaction"
        /\ ops[i].pre # ops[i].params.chain
        /\ currentChain = ops[i].params.chain

\* C2: when operations on different chains run concurrently on one session,
\* no other operation's switchChain takes effect between an operation's own
\* switchChain and its reading of the signing client and its balance query:
\* the client a transfer reads after its switch, and the node its balance
\* query goes to, are those of its own source chain.
C2_SwitchAndReadAreOneUnit ==
    \A i \in Slots :
        (ops[i].kind = "transfer" /\ ops[i].updatedWalletClient # None)
        => /\ ops[i].updatedWalletClient.chain = ops[i].params.chain
           /\ \A k \in 1..Len(ops[i].calls) :
                ops[i].calls[k].name = "getBalance"
                    => ops[i].calls[k].on = ops[i].params.chain

\* C3: a switchChain with an unregistered chain identifier fails with
\* UnknownChain and leaves currentChain at the value it had before the call.
C3_UnknownChainRejected ==
    \A i \in Slots :
        (ops[i].kind = "switchChain" /\ ops[i].pc = "done"
            /\ ops[i].params.chain \notin DOMAIN chainConfigs)
        => /\ ops[i].error # None
           /\ ops[i].error.kind = "UnknownChain"
           /\ currentChain = ops[i].pre

\* C4: switchChain(c) called when currentChain is already c raises no error,
\* leaves currentChain equal to c and leaves every chain's clients unchanged;
\* and after any switchChain(c), a second switchChain(c) changes nothing.
C4_SwitchChainIdempotent ==
    [][\A i \in Slots :
        (ops[i].pc = "idle" /\ ops'[i].kind = "switchChain")
        => /\ switchChain(currentChain', ops'[i].params.chain) = currentChain'
           /\ chainConfigs' = chainConfigs
           /\ (currentChain = ops'[i].params.chain
                => /\ ops'[i].error = None
                   /\ ops'[i].pc = "done"
                   /\ currentChain' = currentChain)]_vars

\* switchChain(c) has returned on a session whose current chain was already
\* c, a chain other than the initial one
C4_Witness ==
    \E i \in Slots :
        /\ ops[i].kind = "switchChain"
        /\ ops[i].pc = "done"
        /\ ops[i].pre = ops[i].params.chain
        /\ ops[i].pre = "base"
        /\ currentChain = "base"

\* C5: an invocation of transfer, swap or bridge that has terminated has
\* exactly one outcome, a result or a failure; and once it has terminated the
\* outcome no longer changes (no result after a failure, no failure after a
\* result): the only step left is the caller taking the outcome.
C5_ExactlyOneOutcome ==
    [][\A i \in Slots :
        /\ (ops'[i].kind \in {"transfer", "swap", "bridge"} /\ ops'[i].pc = "done")
            => (ops'[i].result = None) # (ops'[i].error = None)
        /\ (ops'[i].kind \in {"transfer", "swap", "bridge"} /\ ops'[i].pc # "done")
            => (ops'[i].result = None /\ ops'[i].error = None)
        /\ (ops[i].kind \in {"transfer", "swap", "bridge"} /\ ops[i].pc = "done")
            => ops'[i] \in {ops[i], IdleOp}]_vars

\* a transfer failed at a network step after earlier steps had succeeded, and
\* has a failure and no result
C5_Witness ==
    \E i \in Slots :
        /\ ops[i].kind = "transfer"
        /\ ops[i].pc = "done"
        /\ Len(ops[i].calls) >= 3
        /\ ops[i].error # None
        /\ ops[i].result = None

\* C6: a bridge whose amount in wei exceeds the balance read on the source
\* chain fails with InsufficientBalance, and issues neither a route request
\* nor a route execution.
C6_InsufficientBalanceBeforeRoutes ==
    \A i \in Slots :
        (ops[i].kind = "bridge"
            /\ ops[i].balance \notin {None, Null}
            /\ ops[i].amountInWei # None
            /\ BigLess(ops[i].balance, ops[i].amountInWei))
        => /\ ops[i].pc = "done"
           /\ ops[i].result = None
           /\ ops[i].error = Err("InsufficientBalance", "Insufficient balance")
           /\ CallNames(ops[i]) \cap {"getRoutes", "executeRoute"} = {}
           /\ ops[i].cbLog = <<>>

\* a bridge of 1.0 read a balance of 0.5 on its source chain
C6_Witness ==
    \E i \in Slots :
        /\ ops[i].kind = "bridge"
        /\ ops[i].pc = "done"
        /\ ops[i].params.amount = AmountOne
        /\ ops[i].balance = BalanceHalf
        /\ "getBalance" \in CallNames(ops[i])

\* C7: when the aggregator answers a route request with an empty list, swap
\* and bridge fail with the no-route failure, executeRoute is not called, and
\* nothing is signed or broadcast (no wallet callback runs).
C7_NoRouteFound ==
    \A i \in Slots :
        (ops[i].kind \in {"swap", "bridge"}
            /\ ops[i].routes # None
            /\ ops[i].routes.routes = <<>>)
        => /\ ops[i].pc = "done"
           /\ ops[i].result = None
           /\ ops[i].error \in {Err("SwapFailed", "No routes found"),
                                Err("BridgeFailed", "No bridge routes found")}
           /\ "executeRoute" \notin CallNames(ops[i])
           /\ ops[i].executed = None
           /\ ops[i].cbLog = <<>>

\* a bridge got an empty route list from the aggregator
C7_Witness ==
    \E i \in Slots :
        /\ ops[i].kind = "bridge"
        /\ ops[i].routes = [routes |-> <<>>]
        /\ "getRoutes" \in CallNames(ops[i])

\* C8: a swap with a supplied slippage below 1 or above 500 is rejected with
\* InvalidParameter and issues no route request.
C8_SlippageOutOfRangeRejected ==
    \A i \in Slots :
        (ops[i].kind = "swap" /\ SlippageOutOfRange(ops[i].params.slippage))
        => /\ "getRoutes" \notin CallNames(ops[i])
           /\ (ops[i].pc = "done"
                => ops[i].error # None /\ ops[i].error.kind = "InvalidParameter")

\* C9: an operation whose parameters are invalid (an amount that is not a
\* positive number, a chain that is not registered, a slippage outside
\* [1,500], a destination that is present and not a 0x-prefixed 20-byte hex
\* string) issues no network call.
C9_ValidationBeforeNetwork ==
    \A i \in Slots :
        (ops[i].kind \in {"transfer", "swap", "bridge"}
            /\ \/ NotPositiveNumber(ops[i].params.amount)
               \/ ops[i].params.chain \notin DOMAIN getChainConfigs
               \/ ops[i].kind = "bridge"
                    /\ ops[i].params.toChain \notin DOMAIN getChainConfigs
               \/ ops[i].kind = "swap" /\ SlippageOutOfRange(ops[i].params.slippage)
               \/ ops[i].params.toAddress # NoAddr
                    /\ ~(ops[i].params.toAddress.starts0x
                            /\ ops[i].params.toAddress.length = 42
                            /\ ops[i].params.toAddress.hex))
        => ops[i].calls = <<>>

\* C10: the result of a transfer whose steps all succeeded has the hash the
\* broadcast resolved to, the session's address as from, params.toAddress as
\* to, and as value the decimal string of the amount in wei; the amount 1.0
\* gives "1000000000000000000".
C10_TransferResult ==
    \A i \in Slots :
        (ops[i].kind = "transfer" /\ ops[i].pc = "done" /\ ops[i].result # None)
        => /\ ops[i].result.hash = ops[i].hash
           /\ ops[i].hash \in Hashes
           /\ ops[i].result.from = address
           /\ ops[i].result.to = ops[i].params.toAddress
           /\ ops[i].result.value = BigIntToString(parseEther(ops[i].params.amount))
           /\ (ops[i].params.amount = AmountOne
                => ops[i].result.value = <<"1">> \o Repeat("0", 18))
           /\ (ops[i].params.amount = AmountHalf
                => ops[i].result.value = <<"5">> \o Repeat("0", 17))

\* a transfer of 1.0 returned after the broadcast resolved to 0xabc
C10_Witness ==
    \E i \in Slots :
        /\ ops[i].kind = "transfer"
        /\ ops[i].pc = "done"
        /\ ops[i].result # None
        /\ ops[i].params.amount = AmountOne
        /\ ops[i].hash = "0xabc"
        /\ "sendRawTransaction" \in CallNames(ops[i])

\* C11: every result of transfer, swap or bridge has the fields hash, from,
\* to, value and chainId, and chainId is the chain id of the operation's
\* source chain.
C11_ResultCarriesChainId ==
    \A i \in Slots :
        (ops[i].kind \in {"transfer", "swap", "bridge"} /\ ops[i].result # None)
        => /\ {"hash", "from", "to", "value", "chainId"} \subseteq DOMAIN ops[i].result
           /\ ops[i].result.chainId = getChainConfigs[ops[i].params.chain].chainId

\* C12: for a decimal amount string (digits with at most one point, an
\* optional sign) with at most 18 fractional digits, the value in wei is the
\* amount with its decimal point moved 18 places to the right, exactly, and
\* formatting that integer back gives the amount in canonical notation.
C12_ExactConversion ==
    \A i \in Slots :
        LET s        == ops[i].params.amount
            integer  == Before(Unsigned(s), ".")
            fraction == IF "." \in Range(s) THEN After(Unsigned(s), ".") ELSE <<>>
            shifted  == StripLeadingZeros(integer \o fraction \o Repeat("0", 18 - Len(fraction)))
            negative == s # <<>> /\ Head(s) = "-" /\ shifted # <<>>
            canon    == (IF negative THEN <<"-">> ELSE <<>>)
                            \o (IF StripLeadingZeros(integer) = <<>> THEN <<"0">>
                                ELSE StripLeadingZeros(integer))
                            \o (IF StripTrailingZeros(fraction) = <<>> THEN <<>>
                                ELSE <<".">> \o StripTrailingZeros(fraction))
        IN  (ops[i].kind = "parseEther" /\ ops[i].pc = "done"
                /\ MatchesDecimalForm(s)
                /\ integer \o fraction # <<>>
                /\ Len(fraction) <= 18)
            => /\ ops[i].error = None
               /\ ops[i].result = [neg |-> negative, digits |-> shifted]
               /\ formatEther(ops[i].result) = canon

\* an amount with exactly 18 fractional digits, the last one not zero, was
\* converted
C12_Witness ==
    \E i \in Slots :
        /\ ops[i].kind = "parseEther"
        /\ ops[i].pc = "done"
        /\ ops[i].params.amount = <<"1", ".">> \o Repeat("0", 17) \o <<"1">>
        /\ ops[i].result = [neg |-> FALSE, digits |-> <<"1">> \o Repeat("0", 17) \o <<"1">>]

\* C13: getWalletBalance asks the node of currentChain, never raises, returns
\* null when the query fails or when no client is found for currentChain,
\* and changes neither currentChain nor the clients.
C13_GetWalletBalanceNeverRaises ==
    [][\A i \in Slots :
        (ops'[i].kind = "getWalletBalance" /\ ops'[i] # ops[i])
        => /\ currentChain' = currentChain
           /\ chainConfigs' = chainConfigs
           /\ ops'[i].error = None
           /\ \A k \in 1..Len(ops'[i].calls) :
                ops'[i].calls[k] = Call("getBalance", currentChain)
           /\ (ops'[i].pc = "done" =>
                /\ ops'[i].result \in BalanceValues \cup {Null}
                /\ (currentChain \notin DOMAIN chainConfigs
                        => ops'[i].result = Null /\ ops'[i].calls = <<>>)
                /\ (currentChain \in DOMAIN chainConfigs =>
                        /\ ops'[i].answer # None
                        /\ Len(ops'[i].calls) = 1
                        /\ (~ops'[i].answer.ok => ops'[i].result = Null)
                        /\ (ops'[i].answer.ok => ops'[i].result = ops'[i].answer.value)))]_vars

\* a balance query failed at the node and getWalletBalance returned null
C13_Witness ==
    \E i \in Slots :
        /\ ops[i].kind = "getWalletBalance"
        /\ ops[i].pc = "done"
        /\ ops[i].answer = Fail("request timed out")
        /\ ops[i].result = Null

\* C14: a caller of getWalletBalance treats null (no data) differently from
\* a balance of zero: a bridge whose balance query returned null is not
\* reported as failing for insufficient balance.
C14_NullIsNotZero ==
    \A i \in Slots :
        (ops[i].kind = "bridge" /\ ops[i].pc = "done" /\ ops[i].balance = Null)
        => ops[i].error # Err("InsufficientBalance", "Insufficient balance")

\* C15: when the gas estimate, the gas-price fetch, the nonce fetch, the
\* signing or the broadcast of a transfer fails, the transfer fails with
\* TransferFailed carrying the text of that error unchanged, and the failed
\* step is the last one the transfer executed.
C15_TransferFailedKeepsCause ==
    \A i \in Slots :
        (ops[i].kind = "transfer" /\ ops[i].answer # None /\ ~ops[i].answer.ok)
        => /\ ops[i].pc = "done"
           /\ ops[i].result = None
           /\ ops[i].error = Err("TransferFailed", ops[i].answer.text)
           /\ ops[i].answer.text \in RpcErrors
           /\ Len(ops[i].calls) \in 2..6
           /\ [k \in 1..Len(ops[i].calls) |-> ops[i].calls[k].name]
                = SubSeq(<<"getBalance", "estimateGas", "getGasPrice",
                           "getTransactionCount", "signTransaction",
                           "sendRawTransaction">>, 1, Len(ops[i].calls))

\* the signing of a transfer failed with "execution reverted"
C15_Witness ==
    \E i \in Slots :
        /\ ops[i].kind = "transfer"
        /\ ops[i].pc = "done"
        /\ ops[i].answer = Fail("execution reverted")
        /\ ops[i].calls[Len(ops[i].calls)].name = "signTransaction"

C17_ClientsForEveryChain ==
    Constructed
    => \A c \in DOMAIN getChainConfigs :
        /\ c \in DOMAIN chainConfigs
        /\ chainConfigs[c].publicClient.chain = c
        /\ chainConfigs[c].walletClient.chain = c
        /\ chainConfigs[c].walletClient.account = address

\* C18: getWalletClient returns the signing client bound to currentChain, and
\* where no signing client is bound for currentChain it fails with
\* NotConnected ("Wallet not connected"), with no other error and no missing
\* value.
C18_NotConnectedWhenUnbound ==
    \A i \in Slots :
        (ops[i].pc = "done" /\ ops[i].kind = "getWalletClient") =>
            IF ops[i].pre \in DOMAIN chainConfigs
            THEN /\ ops[i].error = None
                 /\ ops[i].result = chainConfigs[ops[i].pre].walletClient
            ELSE ops[i].error = Err("NotConnected", "Wallet not connected")

\* C19: resolving a chain returns the descriptor of every configured chain
\* and fails with UnknownChain for every chain that is not configured; it
\* never returns an absent descriptor.
C19_ResolveRejectsUnknown ==
    \A i \in Slots :
        (ops[i].pc = "done" /\ ops[i].kind = "getChainConfig") =>
            IF ops[i].params.chain \in DOMAIN getChainConfigs
            THEN /\ ops[i].error = None
                 /\ ops[i].result = [value |-> getChainConfigs[ops[i].params.chain]]
            ELSE /\ ops[i].error # None
                 /\ ops[i].error.kind = "UnknownChain"

\* C20: the secret key is never exposed to the callers of the session: no
\* session operation returns the raw key as its result.
C20_KeyNeverReturned ==
    \A i \in Slots : ops[i].pc = "done" => ops[i].result # PrivateKey

C23_NoLocalBalanceRejection ==
    [][\A i \in Slots :
        /\ (ops[i].kind = "transfer" /\ ops[i].pc = "t_getWalletBalance"
                /\ ops'[i] # ops[i]) =>
            /\ ops'[i].balance \in BalanceValues \cup {Null}
            /\ [ops'[i] EXCEPT !.balance = None]
                = Issued([ops[i] EXCEPT !.pc = "t_estimateGas"],
                         "estimateGas", ops[i].params.chain)
        /\ (ops'[i].kind = "transfer" /\ ops'[i].pc = "done") =>
            /\ ops'[i].error # Err("InsufficientBalance", "Insufficient balance")
            /\ ops'[i].result # None =>
                ops'[i].result = TransferResult([ops'[i] EXCEPT !.balance = None])]_vars

\* a transfer of 1.0 whose balance query returned 0, and one whose balance
\* query returned null, went through to the broadcast and returned
C23_Witness ==
    \E i \in Slots :
        /\ ops[i].kind = "transfer"
        /\ ops[i].pc = "done"
        /\ ops[i].result # None
        /\ ops[i].params.amount = AmountOne
        /\ ops[i].balance = Null
        /\ "estimateGas" \in CallNames(ops[i])

\* C24: the route that swap and bridge hand to executeRoute is the first
\* element of the route list the aggregator returned to the operation's own
\* route request; no other route is executed, and at most one route is
\* executed per operation.
C24_FirstRouteExecuted ==
    \A i \in Slots :
        (ops[i].kind \in {"swap", "bridge"}
            /\ (ops[i].executed # None \/ "executeRoute" \in CallNames(ops[i])))
        => /\ ops[i].routes # None
           /\ ops[i].routes.routes # <<>>
           /\ ops[i].executed = ops[i].routes.routes[1]
           /\ ops[i].request # None
           /\ Cardinality({k \in 1..Len(ops[i].calls) :
                              ops[i].calls[k].name = "executeRoute"}) = 1
           /\ Cardinality({k \in 1..Len(ops[i].calls) :
                              ops[i].calls[k].name = "getRoutes"}) = 1
           /\ \E k \in 1..Len(ops[i].calls) :
                /\ ops[i].calls[k].name = "getRoutes"
                /\ k < Len(ops[i].calls)
                /\ ops[i].calls[k + 1].name = "executeRoute"

\* a swap got two routes from the aggregator, route 2 first, and executes
\* route 2
C24_Witness ==
    \E i \in Slots :
        /\ ops[i].kind = "swap"
        /\ ops[i].pc = "executeRoute"
        /\ ops[i].routes = [routes |-> <<Route(2), Route(1)>>]
        /\ ops[i].executed = Route(2)

\* C25: every route execution that swap or bridge starts is given the
\* execution options "accept every exchange-rate update" and "infinite
\* approval disabled".
C25_ExecutionOptions ==
    \A i \in Slots :
        (ops[i].kind \in {"swap", "bridge"} /\ "executeRoute" \in CallNames(ops[i]))
        => /\ ops[i].options # None
           /\ {"acceptExchangeRateUpdate", "infiniteApproval"} \subseteq DOMAIN ops[i].options
           /\ ops[i].options.acceptExchangeRateUpdate = TRUE
           /\ ops[i].options.infiniteApproval = FALSE

\* C26 as stated: after a route execution has returned, swap and bridge fail
\* exactly when the status of the first process of the first step is the
\* failure marker, and for every other execution result they return a result
\* built from the process's hash, the sender, the first step's approval
\* address, the amount in wei and the source chain id.
C26_FailsExactlyOnFailureMarker ==
    \A i \in Slots :
        (ops[i].kind \in {"swap", "bridge"} /\ ops[i].pc = "done"
            /\ ops[i].answer # None /\ ops[i].answer.ok)
        => IF ops[i].answer.value.status = "FAILED"
           THEN ops[i].result = None /\ ops[i].error # None
           ELSE ops[i].error = None /\ ops[i].result # None

\* C26 as amended: after a route execution has returned, swap and bridge
\* fail exactly when the first process of the first step is missing, has no
\* status, or has the failure marker as its status; for every other
\* execution result they return a result built from the process's hash, the
\* sender, the approval address of the first step of the executed route, the
\* amount in wei and the source chain id.
C26_ExecutionOutcome ==
    \A i \in Slots :
        (ops[i].kind \in {"swap", "bridge"} /\ ops[i].pc = "done"
            /\ ops[i].answer # None /\ ops[i].answer.ok)
        => IF ops[i].answer.value.status \in {"FAILED", ""}
           THEN /\ ops[i].result = None
                /\ ops[i].error \in {Err("SwapFailed", "Transaction failed"),
                                     Err("BridgeFailed", "Bridge transaction failed")}
           ELSE /\ ops[i].error = None
                /\ ops[i].result # None
                /\ ops[i].result.hash = ops[i].answer.value.txHash
                /\ ops[i].result.from = address
                /\ ops[i].result.to = ops[i].routes.routes[1].approvalAddress
                /\ ops[i].result.value = BigIntToString(parseEther(ops[i].params.amount))
                /\ ops[i].result.chainId = DEFAULT_CHAIN_CONFIGS[ops[i].params.chain].chainId

\* a swap whose route execution returned a process with the status PENDING
\* has returned a result with the hash of that process
C26_Witness ==
    \E i \in Slots :
        /\ ops[i].kind = "swap"
        /\ ops[i].pc = "done"
        /\ ops[i].answer # None /\ ops[i].answer.ok
        /\ ops[i].answer.value.status = "PENDING"
        /\ ops[i].result # None
        /\ ops[i].result.hash = "0xdef"

\* C27: the two callbacks registered with the aggregator.  The getWalletClient
\* callback returns the signing client of currentChain and leaves
\* currentChain unchanged.  The switchChain callback with the chain id of a
\* configured chain sets currentChain to that chain and returns that chain's
\* signing client; with a chain id that matches no configured chain it
\* raises an error and leaves currentChain unchanged.
C27_CallbackBehaviour ==
    [][\A i \in Slots :
        LET before == ops[i].cbLog
            after  == ops'[i].cbLog
            last   == after[Len(after)]
        IN  /\ (Len(after) = Len(before) + 1 /\ last.name = "getWalletClient") =>
                /\ currentChain' = currentChain
                /\ currentChain \in DOMAIN chainConfigs
                /\ last.ret = chainConfigs[currentChain].walletClient
            /\ (Len(after) = Len(before) + 1 /\ last.name = "switchChain") =>
                IF \E c \in DOMAIN getChainConfigs : getChainConfigs[c].chainId = last.arg
                THEN /\ currentChain' \in DOMAIN getChainConfigs
                     /\ getChainConfigs[currentChain'].chainId = last.arg
                ELSE /\ currentChain' = currentChain
                     /\ IsErr(last.ret)
            /\ (ops[i].pc = "cb_switchChain" /\ ops'[i].pc = "executeRoute") =>
                /\ currentChain' = currentChain
                /\ ~IsErr(last.ret)
                /\ last.ret.role = "wallet"
                /\ getChainConfigs[last.ret.chain].chainId = last.arg]_vars

\* C28: a swap whose amount is zero, negative or not a number is rejected
\* with InvalidParameter before the session is switched and before any route
\* request is issued.
C28_SwapAmountPositive ==
    \A i \in Slots :
        (ops[i].kind = "swap" /\ NotPositiveNumber(ops[i].params.amount))
        => /\ ops[i].pc = "done"
           /\ ops[i].error # None
           /\ ops[i].error.kind = "InvalidParameter"
           /\ ops[i].calls = <<>>
           /\ currentChain = ops[i].pre

\* C29: a bridge whose fromChain or toChain is not a configured chain is
\* rejected with a parameter or unknown-chain failure, not with
\* InsufficientBalance, before currentChain is changed, before any balance
\* query and before any route request.
C29_BridgeChainsKnown ==
    \A i \in Slots :
        (ops[i].kind = "bridge"
            /\ (ops[i].params.chain \notin DOMAIN getChainConfigs
                \/ ops[i].params.toChain \notin DOMAIN getChainConfigs))
        => /\ ops[i].pc = "done"
           /\ ops[i].error # None
           /\ ops[i].error.kind \in {"InvalidParameter", "UnknownChain"}
           /\ ops[i].calls = <<>>
           /\ currentChain = ops[i].pre

\* C30: a transfer whose amount is not a number greater than 0, or whose
\* toAddress is not a 0x-prefixed string of 40 hex digits (a 42-character
\* string with non-hex characters included), is rejected with
\* InvalidParameter before the session is switched.
C30_TransferValidation ==
    \A i \in Slots :
        (ops[i].kind = "transfer"
            /\ (NotPositiveNumber(ops[i].params.amount)
                \/ ~(ops[i].params.toAddress.starts0x
                        /\ ops[i].params.toAddress.length = 42
                        /\ ops[i].params.toAddress.hex)))
        => /\ ops[i].pc = "done"
           /\ ops[i].error # None
           /\ ops[i].error.kind = "InvalidParameter"
           /\ ops[i].calls = <<>>
           /\ currentChain = ops[i].pre

\* C31: the slippage of a swap's route request.  When swap is called without
\* a slippage value the request carries 50 basis points (50 / 10000); when a
\* value within [1,500] is supplied the request carries exactly that value
\* (in basis points over 10000).
C31_RequestSlippage ==
    \A i \in Slots :
        (ops[i].kind = "swap" /\ ops[i].request # None)
        => LET s == ops[i].params.slippage
               r == ops[i].request.options.slippage
           IN  /\ r.per = 10000
               /\ ~s.present => r.bp = 50
               /\ (s.present /\ s.bp >= 1 /\ s.bp <= 500) => r.bp = s.bp

\* a swap called with a slippage of 500 basis points has sent a route request
\* with a slippage of 500 / 10000
C31_Witness ==
    \E i \in Slots :
        /\ ops[i].kind = "swap"
        /\ ops[i].pc = "s_getRoutes"
        /\ ops[i].params.slippage = Slippage(500)
        /\ ops[i].request # None
        /\ ops[i].request.options.slippage = [bp |-> 500, per |-> 10000]

\* C32: in the route request of a bridge, the destination address is
\* params.toAddress when one is supplied and the address of the session's
\* account otherwise; the sender address is always the address of the
\* session's account.
C32_BridgeRequestAddresses ==
    \A i \in Slots :
        (ops[i].kind = "bridge" /\ ops[i].request # None)
        => /\ ops[i].request.fromAddress = address
           /\ ops[i].request.toAddress =
                IF ops[i].params.toAddress = NoAddr THEN address
                ELSE ops[i].params.toAddress

\* a bridge called with a destination address of its own has sent a route
\* request to that destination, from the session's account
C32_Witness ==
    \E i \in Slots :
        /\ ops[i].kind = "bridge"
        /\ ops[i].pc = "b_getRoutes"
        /\ ops[i].params.toAddress = GoodAddr
        /\ ops[i].request # None
        /\ ops[i].request.toAddress = GoodAddr
        /\ ops[i].request.fromAddress = Account

\* C33: the chain registry in effect is the full replacement mapping of the
\* agent configuration when one is supplied and the built-in default set
\* (ethereum, base, sepolia) otherwise: the chain ids of every route request
\* and the chain the switchChain callback resolves a chain id to are those of
\* that mapping.  No step of switchChain, getWalletBalance, transfer, swap,
\* bridge or of an aggregator callback changes a chain descriptor or the
\* client binding of a chain of the session.
C33_RegistryFixed ==
    [][LET registry == IF settings = None THEN DEFAULT_CHAIN_CONFIGS ELSE settings
       IN  /\ settings' = settings
           /\ chainConfigs' = chainConfigs
           /\ \A i \in Slots :
                LET o    == ops'[i]
                    log  == o.cbLog
                    last == log[Len(log)]
                IN  /\ o.request # None =>
                        /\ o.params.chain \in DOMAIN registry
                        /\ o.request.fromChainId = registry[o.params.chain].chainId
                        /\ o.request.toChainId =
                            IF o.kind = "bridge" THEN registry[o.params.toChain].chainId
                            ELSE registry[o.params.chain].chainId
                    /\ (Len(log) = Len(ops[i].cbLog) + 1 /\ last.name = "switchChain") =>
                        IF \E c \in DOMAIN registry : registry[c].chainId = last.arg
                        THEN /\ currentChain' \in DOMAIN registry
                             /\ registry[currentChain'].chainId = last.arg
                        ELSE /\ last.ret = Err("Error", "Chain ID not supported")
                             /\ currentChain' = currentChain]_vars

\* on a session whose agent configuration registers polygon next to the three
\* default chains, the switchChain callback was called with polygon's chain id
\* and resolved it to polygon
C33_Witness ==
    \E i \in Slots :
        /\ settings # None
        /\ UnknownChainName \in DOMAIN settings
        /\ ops[i].pc = "cb_switchChain"
        /\ ops[i].cbLog[Len(ops[i].cbLog)].arg = UnknownChainId
        /\ currentChain = UnknownChainName
        /\ chainConfigs = [c \in SupportedChain |-> createClients(c)]

\* C34: the account is fixed for the session's lifetime.  After any sequence
\* of switchChain, getWalletBalance, transfer, swap, bridge and aggregator
\* callbacks, getAddress returns the address derived at construction, the
\* signing client of every chain is bound to the account of that address, and
\* so is every signing client an operation or a callback obtained.
C34_AccountFixed ==
    /\ address = Account
    /\ \A c \in DOMAIN chainConfigs : chainConfigs[c].walletClient.account = address
    /\ \A i \in Slots :
        /\ (ops[i].kind = "getAddress" /\ ops[i].pc = "done") => ops[i].result = Account
        /\ ops[i].fromAddress \in {NoAddr, Account}
        /\ ops[i].updatedWalletClient # None => ops[i].updatedWalletClient.account = Account
        /\ \A k \in 1..Len(ops[i].cbLog) :
            (ops[i].cbLog[k].ret # None /\ ~IsErr(ops[i].cbLog[k].ret))
            => ops[i].cbLog[k].ret.account = Account

\* after earlier operations left the session on base, getAddress returned the
\* address derived at construction
C34_Witness ==
    \E i \in Slots :
        /\ currentChain = "base"
        /\ ops[i].kind = "getAddress"
        /\ ops[i].pc = "done"
        /\ ops[i].result = Account
        /\ chainConfigs["base"].walletClient.account = Account

\* C35: the balance that the pre-flight check of a bridge compares with the
\* requested amount is the native balance on params.fromChain: between the
\* bridge's switch to the source chain and its balance query currentChain
\* equals params.fromChain, and the query goes to the node of that chain,
\* also when another operation on the same session switches chains meanwhile.
C35_BridgeBalanceOnFromChain ==
    \A i \in Slots :
        /\ (ops[i].kind = "bridge" /\ ops[i].pc = "b_switchChain")
            => currentChain = ops[i].params.chain
        /\ (ops[i].kind = "bridge" /\ ops[i].pc = "b_getWalletBalance")
            => \A k \in 1..Len(ops[i].calls) :
                ops[i].calls[k].name = "getBalance"
                => ops[i].calls[k].on = ops[i].params.chain

\* C36: in every transfer, the chain id written into the transaction that is
\* signed, and the query client that the gas estimate, the gas price, the
\* nonce and the broadcast go to, are those of params.fromChain, whatever
\* value currentChain takes while the transfer is in progress, under every
\* interleaving with other operations that switch the chain of the session.
C36_TransferBoundToFromChain ==
    \A i \in Slots :
        ops[i].kind = "transfer" =>
            /\ ops[i].transaction # None =>
                ops[i].transaction.chainId = DEFAULT_CHAIN_CONFIGS[ops[i].params.chain].chainId
            /\ "signTransaction" \in CallNames(ops[i]) => ops[i].transaction # None
            /\ \A k \in 1..Len(ops[i].calls) :
                ops[i].calls[k].name \in {"estimateGas", "getGasPrice",
                                          "getTransactionCount", "sendRawTransaction"}
                => ops[i].calls[k].on = ops[i].params.chain

\* a transfer from ethereum has signed a transaction with chain id 1 and
\* broadcasts it through the ethereum query client while another operation
\* has left currentChain at base
C36_Witness ==
    \E i \in Slots :
        /\ ops[i].kind = "transfer"
        /\ ops[i].params.chain = "ethereum"
        /\ ops[i].pc = "t_sendRawTransaction"
        /\ currentChain = "base"
        /\ ops[i].transaction.chainId = 1
        /\ ops[i].calls[Len(ops[i].calls)] = Call("sendRawTransaction", "ethereum")

C38_OnlySwitchChainWrites ==
    [][\A i \in Slots :
        /\ (ops'[i] # ops[i]
                /\ ops'[i].kind \in {"getAddress", "getWalletBalance", "getPublicClient",
                                     "getWalletClient", "getCurrentChain",
                                     "getChainConfig", "connect"})
            => currentChain' = currentChain
        /\ (ops'[i] # ops[i] /\ ops'[i].kind = "constructor" /\ ops'[i].error = None)
            => currentChain' = "ethereum"
        /\ (ops'[i] # ops[i] /\ currentChain' # currentChain)
            => (ops'[i].kind = "switchChain" /\ currentChain' = ops'[i].params.chain)]_vars

\* on a session that switchChain has moved to base, getPublicClient("sepolia")
\* returned the sepolia query client and getCurrentChain returned base
C38_Witness ==
    \E i, j \in Slots :
        /\ currentChain = "base"
        /\ ops[i].kind = "getPublicClient"
        /\ ops[i].pc = "done"
        /\ ops[i].params.chain = "sepolia"
        /\ ops[i].result = [role |-> "public", chain |-> "sepolia"]
        /\ ops[j].kind = "getCurrentChain"
        /\ ops[j].pc = "done"
        /\ ops[j].result = [value |-> "base"]

\* C39: every invocation of the transfer, swap, bridge and getbalance handlers
\* returns true exactly when the underlying operation succeeded and false
\* exactly when a step failed (the state composition or the parameter
\* extraction, the content validation, or the operation itself: its
\* validation or one of its requests); a callback that was supplied is
\* invoked exactly once, with the success message on success and with the
\* error text on failure; and the handler never throws.
C39_HandlerOutcome ==
    \A i \in Slots :
        (ops[i].kind \in DOMAIN HandlerInputs /\ ops[i].pc = "done")
        => LET o      == ops[i]
               valid  == CASE o.kind = "transfer" ->
                                isTransferContent(o.params)
                                    /\ TransferValidationError(o.params) = None
                           [] o.kind = "bridge" ->
                                isBridgeContent(o.params)
                                    /\ BridgeValidationError(o.params) = None
                           [] o.kind = "swap" ->
                                isSwapContent(o.params)
                                    /\ SwapValidationError(o.params) = None
                           [] OTHER -> isGetBalanceContent(o.params)
               failed == \/ o.params = NoParams
                         \/ ~valid
                         \/ (o.answer # None /\ ~o.answer.ok)
           IN  /\ o.error = None
               /\ o.result.ok = ~failed
               /\ o.callback.calls =
                    IF ~o.callback.supplied THEN <<>>
                    ELSE IF o.result.ok THEN <<"success">>
                    ELSE <<o.result.text>>

\* C40: within one trading cycle of AutoClientInterface the swaps are issued
\* one at a time, in the order of the analyses, and only for the analyses
\* with the recommendation 'buy' and a confidence above 0.8; a swap that
\* fails does not stop the cycle: the swaps of the remaining analyses are
\* still attempted; and makeTrades never throws to its caller.
C40_TradingCycle ==
    LET wanted  == SelectSeq(cycle.analyses, Tradable)
        settled == [k \in 1..Len(cycle.swaps) |-> cycle.swaps[k].address]
        issued  == IF cycle.pc = "swap"
                   THEN Append(settled, ops[TradeSlot].params.toToken)
                   ELSE settled
    IN  /\ issued = [k \in 1..Len(issued) |-> wanted[k].address]
        /\ Len(issued) <= Len(wanted)
        /\ cycle.pc = "swap" =>
            /\ ops[TradeSlot].kind = "swap"
            /\ Tradable(cycle.analyses[cycle.next])
            /\ ops[TradeSlot].params = TradeParams(cycle.analyses[cycle.next])
            /\ Len(cycle.swaps) =
                Cardinality({n \in 1..(cycle.next - 1) : Tradable(cycle.analyses[n])})
        /\ cycle.pc # "swap" => ops[TradeSlot].pc = "idle"
        /\ (cycle.pc = "done" /\ cycle.caught = None) => Len(cycle.swaps) = Len(wanted)
        /\ cycle.caught # None => (cycle.pc = "done" /\ cycle.swaps = <<>>)
        /\ cycle.error = None

\* a cycle over two tradable analyses has ended: the swap for the first token
\* failed and the swap for the second was still made, and succeeded
C40_Witness ==
    /\ cycle.pc = "done"
    /\ Len(cycle.analyses) = 2
    /\ cycle.analyses[1].address = "0xTokenA"
    /\ cycle.analyses[2].address = "0xTokenB"
    /\ cycle.swaps = <<[address |-> "0xTokenA", ok |-> FALSE],
                       [address |-> "0xTokenB", ok |-> TRUE]>>
    /\ cycle.caught = None
    /\ cycle.error = None

=============================================================================
